---- MODULE Spec2Model ----
(***************************************************************************)
(* A model of the taxonomy logic of menouf_bot:                            *)
(*   - the pure functions resolve_taxonomy_options and                     *)
(*     extract_program_list of bot.py, over Python values;                 *)
(*   - get_taxonomy_doc of db.py, reading the taxonomy store through the   *)
(*     process-wide TTLCache(maxsize, ttl).                                *)
(***************************************************************************)
EXTENDS Integers, Sequences, FiniteSets, TLC

(***************************************************************************)
(* Python values.  A value is a record [ty, val]:                          *)
(*   str   val = the sequence of code points                               *)
(*   int   val = <<n>>                                                     *)
(*   none  val = <<>>                                                      *)
(*   list  val = the sequence of entries (values)                          *)
(*   dict  val = the sequence of <<key, value>> items, in insertion order  *)
(***************************************************************************)
PyStr(s) == [ty |-> "str", val |-> s]
PyInt(n) == [ty |-> "int", val |-> <<n>>]
PyNone == [ty |-> "none", val |-> <<>>]
PyList(l) == [ty |-> "list", val |-> l]
PyDict(items) == [ty |-> "dict", val |-> items]

\* bool(v): the empty string, 0, None and the empty containers are falsy
Truthy(v) ==
    CASE v.ty = "str" -> v.val # <<>>
      [] v.ty = "int" -> v.val[1] # 0
      [] v.ty = "none" -> FALSE
      [] OTHER -> v.val # <<>>

\* hash(v) succeeds: lists and dicts are unhashable
Hashable(v) == v.ty \notin {"list", "dict"}

\* isinstance(v, list)
IsList(v) == v.ty = "list"

\* isinstance(v, dict)
IsDict(v) == v.ty = "dict"

\* a < b on two str values: code point order, a proper prefix first
RECURSIVE StrLess(_, _)
StrLess(a, b) ==
    IF b = <<>> THEN FALSE
    ELSE IF a = <<>> THEN TRUE
    ELSE IF Head(a) # Head(b) THEN Head(a) < Head(b)
    ELSE StrLess(Tail(a), Tail(b))

\* a < b on two values of the same type (str or int)
PyLess(a, b) ==
    IF a.ty = "int" THEN a.val[1] < b.val[1] ELSE StrLess(a.val, b.val)

\* s.endswith(suffix) on code point sequences
EndsWith(s, suffix) ==
    /\ Len(s) >= Len(suffix)
    /\ SubSeq(s, Len(s) - Len(suffix) + 1, Len(s)) = suffix

\* the results of a call: a returned list, or the exception that escaped
Returned(l) == [exc |-> "none", val |-> l]
Raised(e) == [exc |-> e, val |-> <<>>]

\* dict.get(key): the value stored under key, None when there is none
DictGet(d, key) ==
    IF \E i \in 1..Len(d.val) : d.val[i][1] = key
    THEN d.val[CHOOSE i \in 1..Len(d.val) : d.val[i][1] = key][2]
    ELSE PyNone

\* the set of elements of a sequence
Elems(s) == {s[i] : i \in 1..Len(s)}

\* sorted(S) for a set S of mutually comparable values
RECURSIVE SortedSeq(_)
SortedSeq(S) ==
    IF S = {} THEN <<>>
    ELSE LET m == CHOOSE x \in S : \A y \in S \ {x} : PyLess(x, y)
         IN  <<m>> \o SortedSeq(S \ {m})

\* the character "_" of the suffix f"_{lookup_key}"
Underscore == 95

\* the literal 'list', the key of the primary bucket of the programs document
KeyList == PyStr(<<108, 105, 115, 116>>)

\* the literal "خاص" that extract_program_list renames
Khas == PyStr(<<1582, 1575, 1589>>)

\* the literal "تحكم" it is renamed to
Tahakom == PyStr(<<1578, 1581, 1603, 1605>>)

(***************************************************************************)
(* resolve_taxonomy_options(doc, lookup_key), bot.py 219-233               *)
(***************************************************************************)
\* a faulty variant of the loop: the suffix tested is lookup_key without "_"
RECURSIVE ResolveScanNoUnderscore(_, _, _, _)
ResolveScanNoUnderscore(items, lookup_key, i, options) ==
    IF i > Len(items) THEN Returned(options)
    ELSE LET key == items[i][1]
             value == items[i][2]
         IN  IF key = lookup_key \/ ~IsList(value)
             THEN ResolveScanNoUnderscore(items, lookup_key, i + 1, options)
             ELSE IF key.ty # "str" THEN Raised("AttributeError")
             ELSE IF EndsWith(key.val, lookup_key.val)
             THEN ResolveScanNoUnderscore(items, lookup_key, i + 1,
                                          options \o value.val)
             ELSE ResolveScanNoUnderscore(items, lookup_key, i + 1, options)

\* the loop over doc.items(): the options collected, or the AttributeError
\* of key.endswith on a key that is not a str
RECURSIVE ResolveScan(_, _, _, _)
ResolveScan(items, lookup_key, i, options) ==
    IF i > Len(items) THEN Returned(options)
    ELSE LET key == items[i][1]
             value == items[i][2]
         IN  IF key = lookup_key \/ ~IsList(value)
             THEN ResolveScan(items, lookup_key, i + 1, options)
             ELSE IF key.ty # "str" THEN Raised("AttributeError")
             ELSE IF EndsWith(key.val, <<Underscore>> \o lookup_key.val)
             THEN ResolveScan(items, lookup_key, i + 1, options \o value.val)
             ELSE ResolveScan(items, lookup_key, i + 1, options)

\* a faulty variant: sorted(set(options)), the empty entries are kept
SortedUniqueKeepEmpty(options) ==
    LET kept == Elems(options)
    IN  IF \E o \in kept : ~Hashable(o) THEN Raised("TypeError")
        ELSE IF \E o1, o2 \in kept : o1.ty # o2.ty THEN Raised("TypeError")
        ELSE Returned(SortedSeq(kept))

\* sorted({opt for opt in options if opt}): TypeError on an unhashable truthy
\* entry (the set) or on entries of two types (the sort)
SortedUnique(options) ==
    LET kept == {o \in Elems(options) : Truthy(o)}
    IN  IF \E o \in kept : ~Hashable(o) THEN Raised("TypeError")
        ELSE IF \E o1, o2 \in kept : o1.ty # o2.ty THEN Raised("TypeError")
        ELSE Returned(SortedSeq(kept))

\* a faulty variant: the guard does not test the key
resolve_without_key_guard(d, lookup_key) ==
    IF ~IsDict(d) THEN Returned(<<>>)
    ELSE LET direct == DictGet(d, lookup_key)
             options == IF IsList(direct) THEN direct.val ELSE <<>>
             scan == ResolveScan(d.val, lookup_key, 1, options)
         IN  IF scan.exc # "none" THEN scan ELSE SortedUnique(scan.val)

resolve_taxonomy_options(d, lookup_key) ==
    IF ~IsDict(d) \/ ~Truthy(lookup_key) THEN Returned(<<>>)
    ELSE LET direct == DictGet(d, lookup_key)
             options == IF IsList(direct) THEN direct.val ELSE <<>>
             scan == ResolveScan(d.val, lookup_key, 1, options)
         IN  IF scan.exc # "none" THEN scan ELSE SortedUnique(scan.val)

(***************************************************************************)
(* extract_program_list(doc), bot.py 193-216                               *)
(***************************************************************************)
\* the loop over doc.items() that appends every list-valued bucket but 'list'
RECURSIVE ExtractScan(_, _, _)
ExtractScan(items, i, programs) ==
    IF i > Len(items) THEN programs
    ELSE LET key == items[i][1]
             value == items[i][2]
         IN  IF key = KeyList \/ ~IsList(value)
             THEN ExtractScan(items, i + 1, programs)
             ELSE ExtractScan(items, i + 1, programs \o value.val)

\* the dedup loop: seen is tested before "خاص" is replaced by "تحكم";
\* `program in seen` raises TypeError on an unhashable truthy entry
RECURSIVE Dedupe(_, _, _, _)
Dedupe(programs, i, seen, deduped) ==
    IF i > Len(programs) THEN Returned(deduped)
    ELSE LET program == programs[i]
         IN  IF ~Truthy(program) THEN Dedupe(programs, i + 1, seen, deduped)
             ELSE IF ~Hashable(program) THEN Raised("TypeError")
             ELSE IF program \in seen THEN Dedupe(programs, i + 1, seen, deduped)
             ELSE LET renamed == IF program = Khas THEN Tahakom ELSE program
                  IN  Dedupe(programs, i + 1, seen \cup {renamed},
                             Append(deduped, renamed))

\* the loop over doc.items() of a faulty variant that does not skip 'list'
RECURSIVE ExtractScanAll(_, _, _)
ExtractScanAll(items, i, programs) ==
    IF i > Len(items) THEN programs
    ELSE IF ~IsList(items[i][2]) THEN ExtractScanAll(items, i + 1, programs)
    ELSE ExtractScanAll(items, i + 1, programs \o items[i][2].val)

\* a faulty variant: every bucket in iteration order, 'list' not taken first
extract_in_iteration_order(d) ==
    IF ~IsDict(d) THEN Returned(<<>>)
    ELSE Dedupe(ExtractScanAll(d.val, 1, <<>>), 1, {}, <<>>)

extract_program_list(d) ==
    IF ~IsDict(d) THEN Returned(<<>>)
    ELSE LET base == DictGet(d, KeyList)
             programs == IF IsList(base) THEN base.val ELSE <<>>
         IN  Dedupe(ExtractScan(d.val, 1, programs), 1, {}, <<>>)

(***************************************************************************)
(* The inputs of the pure functions                                        *)
(***************************************************************************)
\* the most list entries a generated document holds, over all its buckets
MaxEntries == 4

\* document keys: 'list', "t", and "s_t", which ends with "_t"; 'list' ends
\* with "t" but not with "_t"
KeyT == PyStr(<<116>>)
KeyST == PyStr(<<115, Underscore, 116>>)
KeyPool == {KeyList, KeyT, KeyST}

\* lookup keys: the empty key and every document key
LookupPool == {PyStr(<<>>)} \cup KeyPool

\* list entries of a taxonomy document: strings, the empty one included
EntryPool == {PyStr(<<>>), PyStr(<<97>>), Khas, Tahakom}

(***************************************************************************)
(* The taxonomy cache of db.py: _taxonomy_cache = TTLCache(maxsize, ttl)   *)
(***************************************************************************)
\* the lifetime of an entry, in seconds
ttl == 300

\* the capacity of the cache.  The program constructs it with maxsize=100;
\* every definition below is written for any capacity, and the cache is
\* explored at a capacity that three document ids exceed
maxsize == 2

\* the document ids looked up
DocIds == {"programs", "terms", "subjects"}

\* the callers of get_taxonomy_doc that may be in flight together
Procs == {"u1", "u2"}

\* the seconds that pass in one step of the clock
TickStep == 100

\* the clock stops at MaxClock
MaxClock == 400

\* the writes committed to the taxonomy store
MaxWrites == 1

\* the slot of a document id that the cache does not hold
NoEntry == [held |-> FALSE, value |-> {}, expires |-> 0]

\* the empty cache: links is the order of the entries, least recently used
\* first; slot maps a document id to its entry
EmptyCache == [links |-> <<>>, slot |-> [d \in DocIds |-> NoEntry]]

\* s without its elements in D
RECURSIVE Without(_, _)
Without(s, D) ==
    IF s = <<>> THEN <<>>
    ELSE (IF Head(s) \in D THEN <<>> ELSE <<Head(s)>>) \o Without(Tail(s), D)

\* a faulty variant of TTLCache.__contains__: an entry lives through the
\* instant it expires
ContainsInclusive(c, key, now) == c.slot[key].held /\ now <= c.slot[key].expires

\* TTLCache.__contains__: the key is held and timer() < link.expires; the
\* order of the entries is not touched
Contains(c, key, now) == c.slot[key].held /\ now < c.slot[key].expires

\* TTLCache.expire(time): every entry with not (time < expires) is removed
Expire(c, now) ==
    LET dead == {d \in DocIds : c.slot[d].held /\ ~(now < c.slot[d].expires)}
    IN  [links |-> Without(c.links, dead),
         slot |-> [d \in DocIds |-> IF d \in dead THEN NoEntry ELSE c.slot[d]]]

\* a faulty variant of TTLCache.__getitem__: a read does not count as a use
GetItemNoTouch(c, key, now) ==
    IF ~c.slot[key].held THEN [ok |-> FALSE, cache |-> c, value |-> {}]
    ELSE IF ~(now < c.slot[key].expires)
         THEN [ok |-> FALSE, cache |-> c, value |-> {}]
         ELSE [ok |-> TRUE, cache |-> c, value |-> c.slot[key].value]

\* TTLCache.__getitem__: KeyError for a key not held; a held key moves to the
\* most recently used end, then KeyError when it expired, else its value; the
\* lifetime is not changed
GetItem(c, key, now) ==
    IF ~c.slot[key].held THEN [ok |-> FALSE, cache |-> c, value |-> {}]
    ELSE LET moved == [c EXCEPT !.links = Append(Without(c.links, {key}), key)]
         IN  IF ~(now < c.slot[key].expires)
             THEN [ok |-> FALSE, cache |-> moved, value |-> {}]
             ELSE [ok |-> TRUE, cache |-> moved, value |-> c.slot[key].value]

\* Cache.__setitem__ making room: while the new key does not fit, popitem()
\* removes the first, least recently used, entry
RECURSIVE MakeRoom(_)
MakeRoom(c) ==
    IF Len(c.links) + 1 > maxsize
    THEN MakeRoom([links |-> Tail(c.links),
                   slot |-> [c.slot EXCEPT ![Head(c.links)] = NoEntry]])
    ELSE c

\* a faulty variant of TTLCache.__setitem__: no entry is evicted
SetItemNoEviction(c, key, value, now) ==
    LET live == Expire(c, now)
    IN  [links |-> Append(Without(live.links, {key}), key),
         slot |-> [live.slot EXCEPT ![key] =
                      [held |-> TRUE, value |-> value, expires |-> now + ttl]]]

\* TTLCache.__setitem__: expired entries are removed, room is made for a new
\* key, and the key becomes the most recently used entry with a full lifetime
SetItem(c, key, value, now) ==
    LET live == Expire(c, now)
        room == IF live.slot[key].held THEN live ELSE MakeRoom(live)
    IN  [links |-> Append(Without(room.links, {key}), key),
         slot |-> [room.slot EXCEPT ![key] =
                      [held |-> TRUE, value |-> value, expires |-> now + ttl]]]

\* what a caller holds when no call of its completed: kind is "none", "doc"
\* (the mapping returned), "KeyError" or "StoreError" (the exception raised)
NoResult == [kind |-> "none", doc |-> {}]

\* the snapshot of a document the store does not hold
Absent == [exists |-> FALSE, data |-> {}]

VARIABLES
    doc,          \* the document handed to the pure function
    lookup_key,   \* the lookup key handed to resolve_taxonomy_options
    call,         \* "none", "resolve" or "extract": the function applied
    result,       \* what the call returned or raised
    clock,        \* time.monotonic(), in seconds
    store,        \* the taxonomy collection: document id -> snapshot
    writes,       \* the writes committed so far
    wtime,        \* wtime[w]: the clock when write w was committed
    taxonomy_cache, \* db._taxonomy_cache
    stored_at,    \* stored_at[d]: the clock when d was last put in the cache
    used,         \* the document ids held, in the order of their last
                  \* completed lookup or store, oldest first
    pc,           \* pc[p]: where caller p is in get_taxonomy_doc
    arg,          \* arg[p]: the doc_id of p's call
    snap,         \* snap[p]: the snapshot p fetched from the store
    ret,          \* ret[p]: what p's last call returned or raised
    nfetch,       \* nfetch[p]: the store fetches of p's call
    started,      \* started[p]: the clock when p's call began
    observed      \* the writes that completed calls returned: .all so far,
                  \* .before[p] when p's call began

VARIABLES
    conv,         \* the state of the user's conversation: 0 when there is
                  \* none, else SELECT_PROGRAM .. SELECT_FILE
    path,         \* context.user_data['path']
    keyboard,     \* keyboard[m]: the callback data of the buttons of message m
    handled,      \* the handler that took the last update, and how it ended
    nav_key,      \* the lookup_key the last navigation handler built
    report_tracker, \* bot._report_tracker: user id -> times of recorded reports
    accepted,     \* accepted[u]: the times of every report of u recorded so far
    report_answer, \* the user and the answer of the last report callback
    taxonomy,     \* the taxonomy collection: document id -> document
    tx_pc,        \* tx_pc[w]: where writer w is in update_taxonomy
    tx_args,      \* tx_args[w]: program, term, subject, lecture of w's call
    tx_writes,    \* tx_writes[w]: the writes w's transaction has buffered
    tx_commits,   \* tx_commits[w]: the commits w's call has sent
    files,        \* the files collection: a set of [id, data] documents
    files_call,   \* the last File Store read: operation, arguments, result
    cur,          \* the user whose update is being handled
    parked,       \* parked[u]: conversation state, path and messages of the
                  \* users other than cur
    session,      \* st.session_state of one dashboard session
    login_run     \* what the last run of login_form did, and the failed
                  \* attempts of the session so far

pure_vars == <<doc, lookup_key, call, result>>
store_vars == <<store, writes, wtime>>
cache_vars == <<taxonomy_cache, stored_at, used>>
proc_vars == <<pc, arg, snap, ret, nfetch, started, observed>>
user_vars == <<cur, parked>>
nav_vars == <<conv, path, keyboard, handled, nav_key, user_vars>>
report_vars == <<report_tracker, accepted, report_answer>>
dash_vars == <<session, login_run>>
tax_vars == <<taxonomy, tx_pc, tx_args, tx_writes, tx_commits>>
file_vars == <<files, files_call>>
ext_vars == <<nav_vars, report_vars, dash_vars, tax_vars, file_vars>>
vars == <<pure_vars, clock, store_vars, cache_vars, proc_vars, ext_vars>>

\* no pure function was applied
PureIdle ==
    /\ doc = PyNone
    /\ lookup_key = PyStr(<<>>)
    /\ call = "none"
    /\ result = Returned(<<>>)

\* the state of db.py after import: an empty cache and no call in flight; the
\* store holds the programs and terms documents and no subjects document
CacheIdle ==
    /\ clock = 0
    /\ store = [d \in DocIds |->
                   IF d = "subjects" THEN Absent
                   ELSE [exists |-> TRUE, data |-> {<<d, 0>>}]]
    /\ writes = 0
    /\ wtime = <<>>
    /\ taxonomy_cache = EmptyCache
    /\ stored_at = [d \in DocIds |-> 0]
    /\ used = <<>>
    /\ pc = [p \in Procs |-> "idle"]
    /\ arg = [p \in Procs |-> "programs"]
    /\ snap = [p \in Procs |-> Absent]
    /\ ret = [p \in Procs |-> NoResult]
    /\ nfetch = [p \in Procs |-> 0]
    /\ started = [p \in Procs |-> 0]
    /\ observed = [all |-> {}, before |-> [p \in Procs |-> {}]]

\* the segments of a path, and the marker of a segment the path lacks
Segments == {"program", "term", "subject", "lecture"}
NoSeg == PyNone
EmptyPath == [k \in Segments |-> NoSeg]

\* the messages that carry buttons: the one /start sends and the one a text
\* search sends
Messages == {"m1", "m2"}

\* no update was handled
NoUpdate ==
    [name |-> "none", outcome |-> "none", reply |-> "none", get_files |-> FALSE]

\* the users of the bot
Users == {"a", "b"}

\* what the bot keeps for a user that never wrote to it: no conversation, no
\* path, no message
NoSlice == [conv |-> 0, path |-> EmptyPath, keyboard |-> [m \in Messages |-> {}]]

\* the bot after start-up: no conversation, an empty user_data, no message
NavIdle ==
    /\ conv = 0
    /\ path = EmptyPath
    /\ keyboard = [m \in Messages |-> {}]
    /\ handled = NoUpdate
    /\ nav_key = PyNone
    /\ cur = "a"
    /\ parked = [u \in Users |-> NoSlice]

\* no report callback was answered
NoAnswer == [user |-> "none", outcome |-> "none"]

\* bot.py 87: _report_tracker = defaultdict(list)
ReportIdle ==
    /\ report_tracker = [u \in Users |-> <<>>]
    /\ accepted = [u \in Users |-> <<>>]
    /\ report_answer = NoAnswer

\* dashboard.py 146-152: the session state of a new session, created at
\* time 0, and no run of login_form yet
SessionIdle ==
    /\ session = [authenticated |-> FALSE, login_attempts |-> 0,
                  last_attempt |-> 0]
    /\ login_run = [outcome |-> "none", password |-> <<>>, failed |-> 0,
                    invalid |-> 0, last_failed |-> 0]

\* the callers of update_taxonomy that may be in flight together
Writers == {"w1", "w2"}

\* the taxonomy documents
TaxDocs == {"programs", "terms", "subjects", "lectures"}

\* the empty document
EmptyDict == PyDict(<<>>)

\* no update_taxonomy call is in flight
TaxIdle ==
    /\ tx_pc = [w \in Writers |-> "idle"]
    /\ tx_args = [w \in Writers |-> <<>>]
    /\ tx_writes = [w \in Writers |-> <<>>]
    /\ tx_commits = [w \in Writers |-> 0]

\* a store without taxonomy documents
NoTaxonomy == [d \in TaxDocs |-> EmptyDict]

\* no File Store read has been made
NoCall == [op |-> "none", args |-> <<>>, queried |-> FALSE, result |-> <<>>]

\* an empty files collection that nobody has read
FilesIdle ==
    /\ files = {}
    /\ files_call = NoCall

\* the state outside get_taxonomy_doc and the pure functions after start-up
ExtIdle ==
    /\ NavIdle /\ ReportIdle /\ SessionIdle /\ FilesIdle
    /\ taxonomy = NoTaxonomy /\ TaxIdle

\* bot.py 140: options = resolve_taxonomy_options(taxonomy_doc, lookup_key)
Resolve(k) ==
    /\ call = "none"
    /\ call' = "resolve"
    /\ lookup_key' = k
    /\ result' = resolve_taxonomy_options(doc, k)
    /\ UNCHANGED <<ext_vars, doc, clock, store_vars, cache_vars, proc_vars>>

\* bot.py 247: programs = extract_program_list(taxonomy)
Extract ==
    /\ call = "none"
    /\ call' = "extract"
    /\ result' = extract_program_list(doc)
    /\ UNCHANGED <<ext_vars, doc, lookup_key, clock, store_vars, cache_vars, proc_vars>>

\* doc is a dict whose items are `items` followed by buckets with distinct keys
\* from K, whose lists hold at most budget entries of E in total
RECURSIVE DocIs(_, _, _, _)
DocIs(items, K, E, budget) ==
    \/ doc = PyDict(items)
    \/ \E k \in K, n \in 0..budget : \E l \in [1..n -> E] :
          DocIs(Append(items, <<k, PyList(l)>>), K \ {k}, E, budget - n)

\* the input is a well-typed taxonomy document (str keys, lists of str) or a
\* value that is no mapping
InitPure ==
    /\ \/ DocIs(<<>>, KeyPool, EntryPool, MaxEntries)
       \/ doc = PyNone
    /\ lookup_key = PyStr(<<>>)
    /\ call = "none"
    /\ result = Returned(<<>>)
    /\ CacheIdle
    /\ ExtIdle

\* the most list entries a generated malformed document holds
MaxBadEntries == 2

\* keys of malformed documents: "t", "s_t", "t_" (ends with "_"), the empty
\* string and a key that is no str
BadKeyPool == {KeyT, KeyST, PyStr(<<116, Underscore>>), PyStr(<<>>), PyInt(7)}

\* entries of malformed lists: strings, numbers, None, nested containers
BadEntryPool == {PyStr(<<>>), PyStr(<<97>>), PyInt(0), PyInt(1), PyNone,
                 PyList(<<>>), PyList(<<PyStr(<<97>>)>>)}

\* values of a malformed document that are no list
NonListPool == {PyNone, PyStr(<<97>>), PyInt(1), PyDict(<<>>)}

\* values handed in as the document that are no mapping
NonDictPool == {PyNone, PyStr(<<97>>), PyInt(1), PyList(<<PyStr(<<97>>)>>)}

\* doc is a dict whose items are `items` followed by at most `more` buckets
\* with distinct keys from K: a value that is no list, or a list; the lists
\* hold at most budget entries of E in total
RECURSIVE BadDocIs(_, _, _, _, _)
BadDocIs(items, K, E, budget, more) ==
    \/ doc = PyDict(items)
    \/ /\ more > 0
       /\ \E k \in K :
             \/ \E v \in NonListPool :
                   BadDocIs(Append(items, <<k, v>>), K \ {k}, E, budget, more - 1)
             \/ \E n \in 0..budget : \E l \in [1..n -> E] :
                   BadDocIs(Append(items, <<k, PyList(l)>>), K \ {k}, E,
                            budget - n, more - 1)

\* the input is any value: no mapping, or a mapping of up to two keys of any
\* type to values of any type
InitMalformed ==
    /\ \/ BadDocIs(<<>>, BadKeyPool, BadEntryPool, MaxBadEntries, 2)
       \/ doc \in NonDictPool
    /\ lookup_key = PyStr(<<>>)
    /\ call = "none"
    /\ result = Returned(<<>>)
    /\ CacheIdle
    /\ ExtIdle

NextPure ==
    \/ \E k \in LookupPool : Resolve(k)
    \/ Extract

SpecPure == InitPure /\ [][NextPure]_vars

SpecMalformed == InitMalformed /\ [][NextPure]_vars

(***************************************************************************)
(* get_taxonomy_doc(doc_id), db.py 146-166, one action per step between    *)
(* which time passes or another caller runs                                *)
(***************************************************************************)
\* the mapping returned: db.py 162, doc.to_dict() if doc.exists else {}
ToDict(snapshot) == IF snapshot.exists THEN snapshot.data ELSE {}

\* the order of use after key was looked up or stored, among the ids held
UsedAfter(c, key) == Append(Without(Without(used, {key}), DocIds \ Elems(c.links)), key)

\* db.py 150: the call begins with the membership test
Test(p, d) ==
    /\ pc[p] = "idle"
    /\ arg' = [arg EXCEPT ![p] = d]
    /\ started' = [started EXCEPT ![p] = clock]
    /\ nfetch' = [nfetch EXCEPT ![p] = 0]
    /\ ret' = [ret EXCEPT ![p] = NoResult]
    /\ snap' = [snap EXCEPT ![p] = Absent]
    /\ pc' = [pc EXCEPT ![p] =
                 IF Contains(taxonomy_cache, d, clock) THEN "hit" ELSE "fetch"]
    /\ observed' = [observed EXCEPT !.before[p] = observed.all]
    /\ UNCHANGED <<ext_vars, pure_vars, clock, store_vars, cache_vars>>

\* db.py 152: return _taxonomy_cache[doc_id]
ReadHit(p) ==
    /\ pc[p] = "hit"
    /\ LET r == GetItem(taxonomy_cache, arg[p], clock)
       IN  /\ taxonomy_cache' = r.cache
           /\ ret' = [ret EXCEPT ![p] =
                         IF r.ok THEN [kind |-> "doc", doc |-> r.value]
                         ELSE [kind |-> "KeyError", doc |-> {}]]
           /\ used' = IF r.ok THEN UsedAfter(r.cache, arg[p]) ELSE used
           /\ observed' = IF r.ok
                          THEN [observed EXCEPT !.all = @ \cup r.value]
                          ELSE observed
    /\ pc' = [pc EXCEPT ![p] = "idle"]
    /\ UNCHANGED <<ext_vars, pure_vars, clock, store_vars, stored_at, arg, snap, nfetch,
                   started>>

\* db.py 159-160: doc = await asyncio.to_thread(doc_ref.get)
Fetch(p) ==
    /\ pc[p] = "fetch"
    /\ snap' = [snap EXCEPT ![p] = store[arg[p]]]
    /\ nfetch' = [nfetch EXCEPT ![p] = @ + 1]
    /\ pc' = [pc EXCEPT ![p] = "store"]
    /\ UNCHANGED <<ext_vars, pure_vars, clock, store_vars, cache_vars, arg, ret, started,
                   observed>>

\* a faulty variant of db.py 160: a failed fetch is swallowed and the empty
\* mapping is cached in place of the document
FetchFailCachesEmpty(p) ==
    /\ pc[p] = "fetch"
    /\ nfetch' = [nfetch EXCEPT ![p] = @ + 1]
    /\ ret' = [ret EXCEPT ![p] = [kind |-> "StoreError", doc |-> {}]]
    /\ LET c == SetItem(taxonomy_cache, arg[p], {}, clock)
       IN  /\ taxonomy_cache' = c
           /\ used' = UsedAfter(c, arg[p])
    /\ stored_at' = [stored_at EXCEPT ![arg[p]] = clock]
    /\ pc' = [pc EXCEPT ![p] = "idle"]
    /\ UNCHANGED <<ext_vars, pure_vars, clock, store_vars, arg, snap, started,
                   observed>>

\* db.py 160: doc_ref.get raises, the store is unreachable; the exception
\* leaves get_taxonomy_doc
FetchFail(p) ==
    /\ pc[p] = "fetch"
    /\ nfetch' = [nfetch EXCEPT ![p] = @ + 1]
    /\ ret' = [ret EXCEPT ![p] = [kind |-> "StoreError", doc |-> {}]]
    /\ pc' = [pc EXCEPT ![p] = "idle"]
    /\ UNCHANGED <<ext_vars, pure_vars, clock, store_vars, cache_vars, arg, snap, started,
                   observed>>

\* a faulty variant of db.py 162-166: an empty result is returned but not cached
StoreSkipEmpty(p) ==
    /\ pc[p] = "store"
    /\ LET value == ToDict(snap[p])
           c == IF value = {} THEN taxonomy_cache
                ELSE SetItem(taxonomy_cache, arg[p], value, clock)
       IN  /\ taxonomy_cache' = c
           /\ ret' = [ret EXCEPT ![p] = [kind |-> "doc", doc |-> value]]
           /\ observed' = [observed EXCEPT !.all = @ \cup value]
           /\ used' = IF value = {} THEN used ELSE UsedAfter(c, arg[p])
    /\ stored_at' = [stored_at EXCEPT ![arg[p]] = clock]
    /\ pc' = [pc EXCEPT ![p] = "idle"]
    /\ UNCHANGED <<ext_vars, pure_vars, clock, store_vars, arg, snap, nfetch, started>>

\* a faulty variant of db.py 162-166: a result is cached only while the cache
\* holds no entry for doc_id, so the first of several callers wins
StoreUnlessHeld(p) ==
    /\ pc[p] = "store"
    /\ LET value == ToDict(snap[p])
           keep == taxonomy_cache.slot[arg[p]].held
           c == IF keep THEN taxonomy_cache
                ELSE SetItem(taxonomy_cache, arg[p], value, clock)
       IN  /\ taxonomy_cache' = c
           /\ ret' = [ret EXCEPT ![p] = [kind |-> "doc", doc |-> value]]
           /\ observed' = [observed EXCEPT !.all = @ \cup value]
           /\ used' = IF keep THEN used ELSE UsedAfter(c, arg[p])
           /\ stored_at' = IF keep THEN stored_at
                           ELSE [stored_at EXCEPT ![arg[p]] = clock]
    /\ pc' = [pc EXCEPT ![p] = "idle"]
    /\ UNCHANGED <<ext_vars, pure_vars, clock, store_vars, arg, snap, nfetch, started>>

\* db.py 162-166: the result is stored in the cache and returned
Store(p) ==
    /\ pc[p] = "store"
    /\ LET value == ToDict(snap[p])
           c == SetItem(taxonomy_cache, arg[p], value, clock)
       IN  /\ taxonomy_cache' = c
           /\ ret' = [ret EXCEPT ![p] = [kind |-> "doc", doc |-> value]]
           /\ observed' = [observed EXCEPT !.all = @ \cup value]
           /\ used' = UsedAfter(c, arg[p])
    /\ stored_at' = [stored_at EXCEPT ![arg[p]] = clock]
    /\ pc' = [pc EXCEPT ![p] = "idle"]
    /\ UNCHANGED <<ext_vars, pure_vars, clock, store_vars, arg, snap, nfetch, started>>

\* time passes
Tick ==
    /\ clock + TickStep <= MaxClock
    /\ clock' = clock + TickStep
    /\ UNCHANGED <<ext_vars, pure_vars, store_vars, cache_vars, proc_vars>>

\* db.py 300-321 and 409-414: a write to a taxonomy document is committed
\* (transaction.set / doc_ref.set with merge=True); the cache is not touched
StoreWrite(d) ==
    /\ writes < MaxWrites
    /\ writes' = writes + 1
    /\ wtime' = Append(wtime, clock)
    /\ store' = [store EXCEPT ![d] =
                    [exists |-> TRUE, data |-> store[d].data \cup {<<d, writes + 1>>}]]
    /\ UNCHANGED <<ext_vars, pure_vars, clock, cache_vars, proc_vars>>

InitCache == PureIdle /\ CacheIdle /\ ExtIdle

\* the steps of caller p
Caller(p) ==
    \/ \E d \in DocIds : Test(p, d)
    \/ ReadHit(p)
    \/ Fetch(p)
    \/ FetchFail(p)
    \/ Store(p)

\* one caller at a time, while time passes and the store is written
NextCache ==
    \/ Caller("u1")
    \/ Tick
    \/ \E d \in DocIds : StoreWrite(d)

SpecCache == InitCache /\ [][NextCache]_vars

\* the document id that the concurrent callers look up
SharedDoc == "programs"

\* several callers of get_taxonomy_doc in flight together, all looking up the
\* same doc_id, while time passes and the document is written
NextConc ==
    \/ \E p \in Procs :
          \/ Test(p, SharedDoc)
          \/ ReadHit(p)
          \/ Fetch(p)
          \/ FetchFail(p)
          \/ Store(p)
    \/ Tick
    \/ StoreWrite(SharedDoc)

SpecConc == InitCache /\ [][NextConc]_vars


(***************************************************************************)
(* Claims about the pure functions                                         *)
(***************************************************************************)
\* the buckets of doc that a lookup of k matches: the key is k or ends with
\* "_" + k, and the value is a list
Matching(k) ==
    {i \in 1..Len(doc.val) :
        /\ IsList(doc.val[i][2])
        /\ \/ doc.val[i][1] = k
           \/ /\ doc.val[i][1].ty = "str"
              /\ EndsWith(doc.val[i][1].val, <<Underscore>> \o k.val)}

\* the set union of the lists of the matching buckets
MatchingUnion(k) == UNION {Elems(doc.val[i][2].val) : i \in Matching(k)}

\* resolve_taxonomy_options was applied to a mapping with a non-empty key
Resolved == call = "resolve" /\ IsDict(doc) /\ Truthy(lookup_key)

\* C1 as stated: resolve_taxonomy_options(d, k) returns exactly the set union
\* of the list under k and the lists under every other key ending with "_" + k
C1_AsStated ==
    Resolved => /\ result.exc = "none"
                /\ Elems(result.val) = MatchingUnion(lookup_key)

\* C1 (amended): resolve_taxonomy_options(d, k) returns exactly the non-empty
\* values of the set union of the list under k and the lists under every other
\* key ending with "_" + k, and no value that comes only from another key
C1_ResolveIsUnion ==
    Resolved => /\ result.exc = "none"
                /\ Elems(result.val) =
                       {v \in MatchingUnion(lookup_key) : v # PyStr(<<>>)}

\* the direct bucket and a legacy bucket each contribute a value of their own,
\* and a bucket that does not match holds a value that is not returned
C1_Witness ==
    /\ Resolved
    /\ \E i, j \in Matching(lookup_key) :
          /\ doc.val[i][1] = lookup_key
          /\ doc.val[j][1] # lookup_key
          /\ \E v \in Elems(result.val) : v \notin Elems(doc.val[j][2].val)
          /\ \E v \in Elems(result.val) : v \notin Elems(doc.val[i][2].val)
    /\ \E m \in 1..Len(doc.val) :
          /\ m \notin Matching(lookup_key)
          /\ \E v \in Elems(doc.val[m][2].val) :
                Truthy(v) /\ v \notin Elems(result.val)

\* C2: the list returned by resolve_taxonomy_options is in ascending order,
\* holds no value twice and holds no empty entry
C2_SortedUniqueNonEmpty ==
    call = "resolve" =>
        /\ result.exc = "none"
        /\ \A i, j \in 1..Len(result.val) :
              i < j => PyLess(result.val[i], result.val[j])
        /\ \A i \in 1..Len(result.val) : Truthy(result.val[i])

\* the entries of the matching buckets, bucket after bucket
RECURSIVE Collected(_, _)
Collected(k, i) ==
    IF i > Len(doc.val) THEN <<>>
    ELSE (IF i \in Matching(k) THEN doc.val[i][2].val ELSE <<>>)
         \o Collected(k, i + 1)

\* the matching buckets hold an empty entry, a value twice and two values in
\* descending order, and two values are returned
C2_Witness ==
    /\ Resolved
    /\ Len(result.val) >= 2
    /\ LET c == Collected(lookup_key, 1)
       IN  /\ \E i \in 1..Len(c) : ~Truthy(c[i])
           /\ \E i, j \in 1..Len(c) : i < j /\ c[i] = c[j] /\ Truthy(c[i])
           /\ \E i, j \in 1..Len(c) : i < j /\ PyLess(c[j], c[i])

\* C3: resolve_taxonomy_options returns the empty list, without error, when
\* the document is no mapping, when the key is empty and for the empty mapping
C3_EmptyOnBadInput ==
    (/\ call = "resolve"
     /\ (~IsDict(doc) \/ lookup_key = PyStr(<<>>) \/ doc = PyDict(<<>>)))
    => result = Returned(<<>>)

\* the key is empty and the document holds a non-empty list under a key that
\* ends with "_" and under the empty key
C3_Witness ==
    /\ call = "resolve"
    /\ lookup_key = PyStr(<<>>)
    /\ IsDict(doc)
    /\ Len(doc.val) = 2
    /\ \A i \in 1..2 : /\ IsList(doc.val[i][2])
                       /\ \E v \in Elems(doc.val[i][2].val) : Truthy(v)
                       /\ doc.val[i][1] \in {PyStr(<<>>), PyStr(<<116, Underscore>>)}

\* C4 as stated: for any malformed input resolve_taxonomy_options and
\* extract_program_list return a list and never raise
C4_NeverRaise == call # "none" => result.exc = "none"

\* C5 as stated: the list returned by extract_program_list holds no value
\* twice and no empty entry
C5_NoDuplicates ==
    call = "extract" =>
        /\ result.exc = "none"
        /\ \A i, j \in 1..Len(result.val) : i # j => result.val[i] # result.val[j]
        /\ \A i \in 1..Len(result.val) : Truthy(result.val[i])

\* the concatenation of the 'list' bucket and of every other list-valued
\* bucket in iteration order
RECURSIVE OtherBuckets(_)
OtherBuckets(i) ==
    IF i > Len(doc.val) THEN <<>>
    ELSE (IF doc.val[i][1] # KeyList /\ IsList(doc.val[i][2])
          THEN doc.val[i][2].val ELSE <<>>) \o OtherBuckets(i + 1)

ListBucket ==
    IF \E i \in 1..Len(doc.val) : doc.val[i][1] = KeyList /\ IsList(doc.val[i][2])
    THEN DictGet(doc, KeyList).val
    ELSE <<>>

Concatenation == ListBucket \o OtherBuckets(1)

\* the subsequence of c at the positions in keep
RECURSIVE SubsequenceAt(_, _, _)
SubsequenceAt(c, keep, i) ==
    IF i > Len(c) THEN <<>>
    ELSE (IF i \in keep THEN <<c[i]>> ELSE <<>>) \o SubsequenceAt(c, keep, i + 1)

Renamed(v) == IF v = Khas THEN Tahakom ELSE v

Fresh(d) == taxonomy_cache.slot[d].held /\ clock - stored_at[d] < ttl

\* the document ids the cache holds
Held(c) == {d \in DocIds : c.slot[d].held}

\* one step of caller p, for C7
C7_Step(p) ==
    /\ (pc[p] = "idle" /\ pc'[p] = "hit") => Fresh(arg'[p])
    /\ (pc[p] = "idle" /\ pc'[p] = "fetch") =>
           (~Fresh(arg'[p]) /\ nfetch'[p] = 0)
    /\ (pc[p] = "hit" /\ pc'[p] = "idle" /\ Fresh(arg[p])) =>
           /\ ret'[p] = [kind |-> "doc", doc |-> taxonomy_cache.slot[arg[p]].value]
           /\ nfetch'[p] = 0
           /\ taxonomy_cache'.slot = taxonomy_cache.slot
           /\ stored_at' = stored_at
    /\ (pc[p] = "fetch" /\ pc'[p] # "fetch") => nfetch'[p] = 1
    /\ (pc[p] = "store" /\ pc'[p] # "store") =>
           /\ pc'[p] = "idle"
           /\ nfetch'[p] = 1
           /\ ret'[p].kind = "doc"
           /\ Fresh(arg[p])'
           /\ stored_at'[arg[p]] = clock

\* C7: a call for a doc_id that the cache does not hold, or holds for ttl
\* seconds or more, fetches from the store exactly once; a call made while the
\* entry is less than ttl seconds old fetches nothing and returns the cached
\* document; a hit leaves the expiry of the entry as it was
C7_FetchOncePerLifetime ==
    [][/\ \A p \in Procs : C7_Step(p)
       /\ \A d \in DocIds :
             taxonomy_cache'.slot[d].held =>
                 taxonomy_cache'.slot[d].expires = stored_at'[d] + ttl]_vars

\* a hit 200 seconds after the entry was stored returned the cached document
\* without a fetch, although the store was written before the call began
C7_Witness ==
    /\ pc["u1"] = "idle"
    /\ ret["u1"].kind = "doc"
    /\ nfetch["u1"] = 0
    /\ started["u1"] - stored_at[arg["u1"]] = 200
    /\ writes = 1
    /\ wtime[1] < started["u1"]
    /\ ret["u1"].doc # store[arg["u1"]].data
    /\ taxonomy_cache.slot[arg["u1"]].expires = stored_at[arg["u1"]] + ttl

\* C8 as stated: every call that starts more than ttl seconds after a write to
\* its document was committed returns a document that includes the write
C8_StalenessBounded ==
    \A p \in Procs :
        (pc[p] = "idle" /\ ret[p].kind = "doc") =>
            \A w \in 1..writes :
                (/\ <<arg[p], w>> \in store[arg[p]].data
                 /\ started[p] - wtime[w] > ttl)
                => <<arg[p], w>> \in ret[p].doc

\* one step of caller p, for C9: a miss stores a doc_id that is not held while
\* maxsize fresh entries are held
C9_Step(p) ==
    (/\ pc[p] = "store"
     /\ pc'[p] = "idle"
     /\ ~taxonomy_cache.slot[arg[p]].held
     /\ Cardinality({d \in DocIds : Fresh(d)}) = maxsize)
    => /\ Len(used) = maxsize
       /\ Held(taxonomy_cache') = (Held(taxonomy_cache) \ {Head(used)}) \cup {arg[p]}

\* C9: the cache never holds more than maxsize entries; when a miss stores a
\* doc_id while maxsize other unexpired entries are held, exactly one entry is
\* evicted, the one whose last lookup or store is the oldest
C9_EvictsLeastRecentlyUsed ==
    [][/\ Cardinality(Held(taxonomy_cache')) <= maxsize
       /\ Len(taxonomy_cache'.links) <= maxsize
       /\ \A p \in Procs : C9_Step(p)]_vars

\* "terms" was stored after "programs", then "programs" was looked up, and the
\* store of "subjects" evicted "terms", not the older "programs"
C9_Witness ==
    /\ clock = 100
    /\ Held(taxonomy_cache) = {"programs", "subjects"}
    /\ stored_at["programs"] = 0
    /\ stored_at["terms"] = 100
    /\ stored_at["subjects"] = 100
    /\ used = <<"programs", "subjects">>

\* the empty mapping, returned
EmptyDoc == [kind |-> "doc", doc |-> {}]

\* one step of caller p, for C10
C10_Step(p) ==
    /\ (pc[p] = "store" /\ pc'[p] # "store" /\ ~snap[p].exists) =>
           /\ pc'[p] = "idle"
           /\ ret'[p] = EmptyDoc
           /\ taxonomy_cache'.slot[arg[p]].held
           /\ taxonomy_cache'.slot[arg[p]].value = {}
           /\ Fresh(arg[p])'
    /\ (/\ pc[p] = "idle"
        /\ pc'[p] # "idle"
        /\ Fresh(arg'[p])
        /\ taxonomy_cache.slot[arg'[p]].value = {}) => pc'[p] = "hit"
    /\ (/\ pc[p] = "hit"
        /\ pc'[p] = "idle"
        /\ Fresh(arg[p])
        /\ taxonomy_cache.slot[arg[p]].value = {}) =>
           (ret'[p] = EmptyDoc /\ nfetch'[p] = 0)

\* C10: when the document does not exist in the store, get_taxonomy_doc
\* returns the empty mapping, no error, and caches it under doc_id; lookups
\* within the ttl return the empty mapping without a fetch
C10_AbsentIsCachedEmpty == [][\A p \in Procs : C10_Step(p)]_vars

\* a hit returned the cached empty mapping without a fetch, although the store
\* held the document before the call began
C10_Witness ==
    /\ pc["u1"] = "idle"
    /\ arg["u1"] = "subjects"
    /\ ret["u1"] = EmptyDoc
    /\ nfetch["u1"] = 0
    /\ store["subjects"].exists
    /\ wtime[1] < started["u1"]
    /\ started["u1"] > stored_at["subjects"]

\* one step of caller p, for C11
C11_Step(p) ==
    /\ (pc[p] = "fetch" /\ pc'[p] = "idle") =>
           /\ ret'[p].kind = "StoreError"
           /\ nfetch'[p] = 1
           /\ taxonomy_cache' = taxonomy_cache
           /\ stored_at' = stored_at
           /\ used' = used
           /\ ~taxonomy_cache'.slot[arg[p]].held \/ ~Fresh(arg[p])'
    /\ (/\ pc[p] = "idle"
        /\ ret[p].kind = "StoreError"
        /\ pc'[p] # "idle"
        /\ arg'[p] = arg[p]) => (pc'[p] = "fetch" /\ nfetch'[p] = 0)

\* C11: when the fetch of a miss fails, get_taxonomy_doc raises the failure
\* after one fetch attempt, the cache is left as it was, holding no fresh
\* entry for doc_id, and the next lookup of doc_id fetches again
C11_FailureNotCached == [][\A p \in Procs : C11_Step(p)]_vars

\* a fetch failed 100 seconds after its call began, while the cache held
\* another document and no entry for the document asked for
C11_Witness ==
    /\ pc["u1"] = "idle"
    /\ ret["u1"].kind = "StoreError"
    /\ nfetch["u1"] = 1
    /\ clock - started["u1"] = 100
    /\ Held(taxonomy_cache) # {}
    /\ ~taxonomy_cache.slot[arg["u1"]].held

\* the versions of document d the store has held: its data up to some write
Versions(d) ==
    {{x \in store[d].data : x[2] <= k} : k \in 0..writes} \cup
    (IF <<d, 0>> \in store[d].data THEN {} ELSE {{}})

\* one step of caller p, for C12: a call that missed fetches once and returns
\* the snapshot it fetched, which is then the cached value
C12_Step(p) ==
    /\ (pc[p] = "fetch" /\ pc'[p] = "store") =>
           (snap'[p] = store[arg[p]] /\ nfetch'[p] = 1)
    /\ (pc[p] = "store" /\ pc'[p] # "store") =>
           /\ pc'[p] = "idle"
           /\ nfetch'[p] = 1
           /\ ret'[p].kind = "doc"
           /\ ret'[p].doc \in Versions(arg[p])
           /\ \A w \in 1..writes :
                 (<<arg[p], w>> \in store[arg[p]].data /\ wtime[w] < started[p])
                 => <<arg[p], w>> \in ret'[p].doc
           /\ ret'[p].doc \subseteq store[arg[p]].data
           /\ Contains(taxonomy_cache', arg[p], clock')
           /\ taxonomy_cache'.slot[arg[p]].value = ret'[p].doc

\* C12: lookups of one doc_id that run together against a cache that does not
\* hold it each return a whole version of the document that the store held
\* during the call, each fetch once (so the store is fetched at least once and
\* at most once per lookup), and when the last of them completes the cache
\* holds doc_id
C12_ConcurrentMisses ==
    [][/\ \A p \in Procs : C12_Step(p)
       /\ (/\ \E p \in Procs : pc[p] = "store" /\ pc'[p] = "idle"
           /\ \A p \in Procs : pc'[p] = "idle")
          => Contains(taxonomy_cache', SharedDoc, clock')]_vars

\* two lookups of one doc_id overlapped: both missed, both fetched once and
\* both returned, with a write between the two fetches, and the cache holds
\* the document
C12_Witness ==
    /\ \A p \in Procs :
          /\ pc[p] = "idle"
          /\ arg[p] = SharedDoc
          /\ ret[p].kind = "doc"
          /\ nfetch[p] = 1
    /\ started["u1"] = 0
    /\ started["u2"] = 100
    /\ stored_at[SharedDoc] = 200
    /\ ret["u1"].doc # ret["u2"].doc
    /\ Contains(taxonomy_cache, SharedDoc, clock)

(***************************************************************************)
(* The conversation of bot.py: the navigation handlers, the handlers of a  *)
(* subject search, and the ConversationHandler that dispatches to them     *)
(***************************************************************************)
\* bot.py 80-84: the conversation states
SELECT_PROGRAM == 1
SELECT_TERM == 2
SELECT_SUBJECT == 3
SELECT_LECTURE == 4
SELECT_FILE == 5

\* the names of the taxonomy: programs "p" and "q", terms "1" and "2",
\* subjects "x" and "y", a lecture "l"
ProgP == PyStr(<<112>>)
ProgQ == PyStr(<<113>>)
Term1 == PyStr(<<49>>)
Term2 == PyStr(<<50>>)
SubjX == PyStr(<<120>>)
SubjY == PyStr(<<121>>)
Lect1 == PyStr(<<108>>)

\* "_".join(parts)
RECURSIVE JoinUnderscore(_)
JoinUnderscore(parts) ==
    IF parts = <<>> THEN <<>>
    ELSE IF Len(parts) = 1 THEN parts[1].val
    ELSE parts[1].val \o <<Underscore>> \o JoinUnderscore(Tail(parts))

\* key.split('_'): the pieces of s between underscores
RECURSIVE SplitUnderscore(_, _, _)
SplitUnderscore(s, i, piece) ==
    IF i > Len(s) THEN <<PyStr(piece)>>
    ELSE IF s[i] = Underscore
         THEN <<PyStr(piece)>> \o SplitUnderscore(s, i + 1, <<>>)
         ELSE SplitUnderscore(s, i + 1, Append(piece, s[i]))

\* the taxonomy documents of the store while the user navigates: program p
\* has the terms 1 and 2, program q has none; p has the subjects x and y in
\* term 1 and x in term 2; the subject x of p in term 1 has the lecture l
TaxonomyDoc(d) ==
    CASE d = "programs" ->
             PyDict(<< <<KeyList, PyList(<<ProgP, ProgQ>>)>> >>)
      [] d = "terms" ->
             PyDict(<< <<ProgP, PyList(<<Term1, Term2>>)>> >>)
      [] d = "subjects" ->
             PyDict(<< <<PyStr(JoinUnderscore(<<ProgP, Term1>>)),
                         PyList(<<SubjX, SubjY>>)>>,
                       <<PyStr(JoinUnderscore(<<ProgP, Term2>>)),
                         PyList(<<SubjX>>)>> >>)
      [] d = "lectures" ->
             PyDict(<< <<PyStr(JoinUnderscore(<<ProgP, Term1, SubjX>>)),
                         PyList(<<Lect1>>)>> >>)

\* str.lower() on the code points of the model
Lower(s) == [i \in 1..Len(s) |-> IF s[i] \in 65..90 THEN s[i] + 32 ELSE s[i]]

\* db.py 345-351: the document that save_file stores for file_data
FileData(display_name, original_name, pth, file_id) ==
    PyDict(<< <<"display_name", display_name>>,
              <<"original_name", original_name>>,
              <<"program", pth[1]>>, <<"term", pth[2]>>,
              <<"subject", pth[3]>>, <<"lecture", pth[4]>>,
              <<"file_id", file_id>>,
              <<"name_lower", PyStr(Lower(display_name.val))>> >>)

\* the files collection while the user navigates: one file "b", uploaded as
\* "a.pdf" with the Telegram file id "F", of lecture l of subject x
NavFiles ==
    {[id |-> "f1",
      data |-> FileData(PyStr(<<98>>), PyStr(<<97, 46, 112, 100, 102>>),
                        <<ProgP, Term1, SubjX, Lect1>>, PyStr(<<70>>))]}

\* the file records of the store, by the fields that the queries filter on
FileRecords ==
    {[id |-> d.id, program |-> DictGet(d.data, "program"),
      term |-> DictGet(d.data, "term"), subject |-> DictGet(d.data, "subject"),
      lecture |-> DictGet(d.data, "lecture")] : d \in files}

\* db.py 381-391: delete_file, by the dashboard while the user navigates
DeleteFile(id) ==
    /\ \E d \in files : d.id = id
    /\ files' = {d \in files : d.id # id}
    /\ UNCHANGED files_call
    /\ UNCHANGED <<pure_vars, clock, store_vars, cache_vars, proc_vars,
                   nav_vars, report_vars, dash_vars, tax_vars>>

\* a faulty variant of db.py 70-71: the record is built also when the
\* document does not exist
GetFileDetailsAlways(doc_id) ==
    PyDict(<< <<"file_id", PyNone>>, <<"doc_id", doc_id>> >>)

\* db.py 64-84: get_file_details, the empty mapping when no document has the id
GetFileDetails(doc_id) ==
    IF ~\E d \in files : d.id = doc_id
    THEN PyDict(<<>>)
    ELSE LET data == (CHOOSE d \in files : d.id = doc_id).data
         IN  PyDict(<< <<"file_id", DictGet(data, "file_id")>>,
                       <<"display_name",
                         IF Truthy(DictGet(data, "display_name"))
                         THEN DictGet(data, "display_name")
                         ELSE IF Truthy(DictGet(data, "original_name"))
                         THEN DictGet(data, "original_name")
                         ELSE PyStr(<<1605, 1604, 1601>>)>>,
                       <<"doc_id", doc_id>>,
                       <<"mime_type", DictGet(data, "mime_type")>>,
                       <<"original_name", DictGet(data, "original_name")>>,
                       <<"program", DictGet(data, "program")>>,
                       <<"term", DictGet(data, "term")>>,
                       <<"subject", DictGet(data, "subject")>>,
                       <<"lecture", DictGet(data, "lecture")>> >>)

\* bot.py 129: order = ['program', 'term', 'subject']
order == <<"program", "term", "subject">>

\* a faulty variant of bot.py 130-134: the loop does not stop at key_name
RECURSIVE KeyPartsNoBreak(_, _, _, _)
KeyPartsNoBreak(pth, key_name, i, key_parts) ==
    IF i > Len(order) THEN key_parts
    ELSE KeyPartsNoBreak(pth, key_name, i + 1,
                         IF pth[order[i]] # NoSeg
                         THEN Append(key_parts, pth[order[i]])
                         ELSE key_parts)

\* a faulty variant of bot.py 130-134: a segment the path lacks enters the key
\* as an empty token
RECURSIVE KeyPartsEmptyToken(_, _, _, _)
KeyPartsEmptyToken(pth, key_name, i, key_parts) ==
    IF i > Len(order) THEN key_parts
    ELSE LET k == order[i]
             parts == Append(key_parts,
                             IF pth[k] # NoSeg THEN pth[k] ELSE PyStr(<<>>))
         IN  IF k = key_name THEN parts
             ELSE KeyPartsEmptyToken(pth, key_name, i + 1, parts)

\* bot.py 130-134: for k in order: if k in path: key_parts.append(path[k]);
\* if k == key_name: break
RECURSIVE KeyParts(_, _, _, _)
KeyParts(pth, key_name, i, key_parts) ==
    IF i > Len(order) THEN key_parts
    ELSE LET k == order[i]
             parts == IF pth[k] # NoSeg THEN Append(key_parts, pth[k])
                      ELSE key_parts
         IN  IF k = key_name THEN parts
             ELSE KeyParts(pth, key_name, i + 1, parts)

\* bot.py 126-135: lookup_key = "_".join(key_parts)
BuildLookupKey(pth, key_name) ==
    PyStr(JoinUnderscore(KeyParts(pth, key_name, 1, <<>>)))

\* the conversation state from which the selections of a level are handled:
\* bot.py 788-817, the state lists a handler is registered in
Level(name) ==
    CASE name = "program" -> SELECT_PROGRAM
      [] name = "term" -> SELECT_TERM
      [] name = "subject" -> SELECT_SUBJECT
      [] name = "lecture" -> SELECT_LECTURE
      [] name = "file" -> SELECT_FILE

\* a faulty variant of bot.py 752-780: the program handler skips the term level
NextStateSkipsTerm(key_name) ==
    CASE key_name = "program" -> SELECT_SUBJECT
      [] key_name = "term" -> SELECT_SUBJECT
      [] key_name = "subject" -> SELECT_LECTURE

\* bot.py 752-780: next_state of the handler of key_name
NextState(key_name) ==
    CASE key_name = "program" -> SELECT_TERM
      [] key_name = "term" -> SELECT_SUBJECT
      [] key_name = "subject" -> SELECT_LECTURE

\* bot.py 752-780: taxonomy_doc_key of the handler of key_name
TaxonomyDocKey(key_name) ==
    CASE key_name = "program" -> "terms"
      [] key_name = "term" -> "subjects"
      [] key_name = "subject" -> "lectures"

\* bot.py 145-151: callback_map.get(taxonomy_doc_key, "item")
CallbackPrefix(taxonomy_doc_key) ==
    CASE taxonomy_doc_key = "programs" -> "program"
      [] taxonomy_doc_key = "terms" -> "term"
      [] taxonomy_doc_key = "subjects" -> "subject"
      [] taxonomy_doc_key = "lectures" -> "lecture"

\* a faulty variant: no back_callback_template names a path field
BackFieldsNone(key_name) == {}

\* bot.py 758, 768, 778: the path fields of back_callback_template
BackFields(key_name) ==
    CASE key_name = "program" -> {}
      [] key_name = "term" -> {"program"}
      [] key_name = "subject" -> {"term"}

\* bot.py 157-160: the callback data of the Back button
BackCallback(key_name, pth) ==
    CASE key_name = "program" -> <<"main_menu">>
      [] key_name = "term" -> <<"program", pth["program"]>>
      [] key_name = "subject" -> <<"term", pth["term"]>>

\* the path fields of S.BREADCRUMB_TERM, a template strings.py does not hold
BreadcrumbTermFields == {"program", "term"}

\* strings.py 25-26: the path fields of the breadcrumb template of key_name
BreadcrumbFields(key_name) ==
    CASE key_name = "program" -> {"program"}
      [] key_name = "term" -> BreadcrumbTermFields
      [] key_name = "subject" -> {"program", "subject"}

\* the button that every menu carries
MainMenuButton == <<"main_menu">>

\* bot.py 180-188: the message after a handler caught KeyError or ValueError
ErrorKeyboard == {MainMenuButton}

\* what get_taxonomy_doc does for a handler: it returns the document, or
\* raises the failure of the store, or the KeyError of an entry that expired
\* between db.py 150 and db.py 152
FetchOutcomes == {"doc", "StoreError", "KeyError"}

\* the handler `name` ended with `outcome`: "ok" when it returned its state,
\* "error" when it caught an exception, "raised" when an exception left it
Ended(name, outcome) ==
    [name |-> name, outcome |-> outcome, reply |-> "none", get_files |-> FALSE]

\* the handler `name` ended with `outcome` after it showed the text `reply`
\* or sent the document
Replied(name, outcome, reply) ==
    [name |-> name, outcome |-> outcome, reply |-> reply, get_files |-> FALSE]

\* the handler `name` ended with `outcome` after it called get_files
\* (bot.py 300)
Queried(name, outcome) ==
    [name |-> name, outcome |-> outcome, reply |-> "none", get_files |-> TRUE]

\* bot.py 112-190: the handler create_navigation_handler makes for key_name,
\* dispatched by the ConversationHandler (bot.py 788-817) on the callback
\* data key_name:new_value of a button of message m
NavHandler(m, key_name, new_value, fetched) ==
    /\ conv >= Level(key_name)
    /\ <<key_name, new_value>> \in keyboard[m]
    /\ LET path1 == [path EXCEPT ![key_name] = new_value]
           key == BuildLookupKey(path1, key_name)
           options == resolve_taxonomy_options(
                          TaxonomyDoc(TaxonomyDocKey(key_name)), key)
           prefix == CallbackPrefix(TaxonomyDocKey(key_name))
           lacking == {f \in BackFields(key_name) \cup BreadcrumbFields(key_name) :
                          path1[f] = NoSeg}
       IN  /\ path' = path1
           /\ IF fetched = "StoreError"
              THEN /\ conv' = conv
                   /\ keyboard' = keyboard
                   /\ nav_key' = PyNone
                   /\ handled' = Ended(key_name, "raised")
              ELSE IF fetched = "KeyError"
              THEN /\ conv' = SELECT_PROGRAM
                   /\ keyboard' = [keyboard EXCEPT ![m] = ErrorKeyboard]
                   /\ nav_key' = PyNone
                   /\ handled' = Replied(key_name, "error", "GENERIC_ERROR")
              ELSE IF options.exc # "none"
              THEN /\ conv' = conv
                   /\ keyboard' = keyboard
                   /\ nav_key' = key
                   /\ handled' = Ended(key_name, "raised")
              ELSE IF lacking # {}
              THEN /\ conv' = SELECT_PROGRAM
                   /\ keyboard' = [keyboard EXCEPT ![m] = ErrorKeyboard]
                   /\ nav_key' = key
                   /\ handled' = Replied(key_name, "error", "GENERIC_ERROR")
              ELSE /\ conv' = NextState(key_name)
                   /\ keyboard' = [keyboard EXCEPT ![m] =
                          {<<prefix, o>> : o \in Elems(options.val)} \cup
                          {BackCallback(key_name, path1), MainMenuButton}]
                   /\ nav_key' = key
                   /\ handled' = Ended(key_name, "ok")
    /\ UNCHANGED <<pure_vars, clock, store_vars, cache_vars, proc_vars, report_vars, dash_vars, tax_vars, file_vars,
                   user_vars>>

\* db.py 91-97 as lecture_selected_handler uses it: the ids of the file
\* records of a lecture
FilesOfLecture(pth) ==
    {f.id : f \in {r \in FileRecords :
                      /\ r.program = pth["program"]
                      /\ r.term = pth["term"]
                      /\ r.subject = pth["subject"]
                      /\ r.lecture = pth["lecture"]}}

\* bot.py 321-348, 566-576: a Download and a Report button for each file
FileButtons(ids) == {<<"file", i>> : i \in ids} \cup {<<"report", i>> : i \in ids}

\* bot.py 287-369: lecture_selected_handler
LectureSelected(m, lecture, fetched) ==
    /\ conv >= Level("lecture")
    /\ <<"lecture", lecture>> \in keyboard[m]
    /\ nav_key' = PyNone
    /\ IF \E k \in {"program", "term", "subject"} : path[k] = NoSeg
       THEN /\ path' = path
            /\ conv' = SELECT_PROGRAM
            /\ keyboard' = [keyboard EXCEPT ![m] = ErrorKeyboard]
            /\ handled' = Replied("lecture", "error", "GENERIC_ERROR")
       ELSE LET path1 == [path EXCEPT !["lecture"] = lecture]
            IN  /\ path' = path1
                /\ IF fetched = "StoreError"
                   THEN /\ conv' = conv
                        /\ keyboard' = keyboard
                        /\ handled' = Queried("lecture", "raised")
                   ELSE /\ conv' = SELECT_FILE
                        /\ keyboard' = [keyboard EXCEPT ![m] =
                               FileButtons(FilesOfLecture(path1)) \cup
                               {<<"subject", path1["subject"]>>, MainMenuButton}]
                        /\ handled' = Queried("lecture", "ok")
    /\ UNCHANGED <<pure_vars, clock, store_vars, cache_vars, proc_vars, report_vars, dash_vars, tax_vars, file_vars,
                   user_vars>>

\* how file_selected_handler ends: the document is sent; the record is not
\* found; Telegram rejects the file_id; another exception leaves the handler
\* or it returns None
FileOutcomes == {"sent", "not_found", "bad_file_id", "raised"}

\* bot.py 372-402: file_selected_handler
FileSelected(m, id, outcome) ==
    /\ conv = Level("file")
    /\ <<"file", id>> \in keyboard[m]
    /\ LET file_data == GetFileDetails(id)
       IN  outcome \in (IF ~Truthy(file_data) THEN {"not_found"}
                        ELSE {"sent", "bad_file_id"}) \cup {"raised"}
    /\ conv' = IF outcome = "raised" THEN conv ELSE SELECT_FILE
    /\ keyboard' = IF outcome \in {"not_found", "bad_file_id"}
                   THEN [keyboard EXCEPT ![m] = {}]
                   ELSE keyboard
    /\ handled' =
           CASE outcome = "sent" -> Replied("file", "ok", "document")
             [] outcome = "not_found" -> Replied("file", "ok", "FILE_NOT_FOUND")
             [] outcome = "bad_file_id" -> Replied("file", "ok", "FILE_ERROR")
             [] outcome = "raised" -> Ended("file", "raised")
    /\ nav_key' = PyNone
    /\ UNCHANGED <<path, pure_vars, clock, store_vars, cache_vars, proc_vars, report_vars, dash_vars, tax_vars, file_vars,
                   user_vars>>

\* bot.py 648-657, 819-822: unknown_callback, the fallback of the conversation
\* for a selection that the current state has no handler for
UnknownCallback(m, b) ==
    /\ conv >= SELECT_PROGRAM
    /\ b \in keyboard[m]
    /\ b[1] \in {"program", "term", "subject", "lecture", "file"}
    /\ IF b[1] = "file" THEN conv # Level("file") ELSE conv < Level(b[1])
    /\ conv' = SELECT_PROGRAM
    /\ keyboard' = [keyboard EXCEPT ![m] = {MainMenuButton}]
    /\ handled' = Ended("unknown", "ok")
    /\ nav_key' = PyNone
    /\ UNCHANGED <<path, pure_vars, clock, store_vars, cache_vars, proc_vars, report_vars, dash_vars, tax_vars, file_vars,
                   user_vars>>

\* bot.py 235-276: show_programs_menu, on message m
ShowProgramsMenu(m, name, fetched) ==
    /\ path' = EmptyPath
    /\ nav_key' = PyNone
    /\ LET programs == extract_program_list(TaxonomyDoc("programs"))
       IN  IF fetched # "doc" \/ programs.exc # "none"
           THEN /\ conv' = conv
                /\ keyboard' = keyboard
                /\ handled' = Ended(name, "raised")
           ELSE /\ conv' = SELECT_PROGRAM
                /\ keyboard' =
                       IF programs.val = <<>> THEN keyboard
                       ELSE [keyboard EXCEPT ![m] =
                                {<<"program", o>> : o \in Elems(programs.val)}
                                \cup {<<"search_start">>}]
                /\ handled' = Ended(name, "ok")
    /\ UNCHANGED <<pure_vars, clock, store_vars, cache_vars, proc_vars, report_vars, dash_vars, tax_vars, file_vars,
                   user_vars>>

\* bot.py 278-284, 783-784: /start, an entry point of the conversation
StartCommand(fetched) ==
    /\ conv = 0
    /\ ShowProgramsMenu("m1", "start", fetched)

\* bot.py 783-822: /start while the user has a conversation; the command is
\* an entry point only (allow_reentry is not set), no state and no fallback
\* holds a CommandHandler, and the text handler of bot.py 845 excludes
\* commands: no handler takes the update
StartInConversation ==
    /\ conv >= SELECT_PROGRAM
    /\ handled' = Ended("start", "unhandled")
    /\ UNCHANGED <<conv, path, keyboard, nav_key>>
    /\ UNCHANGED <<pure_vars, clock, store_vars, cache_vars, proc_vars, report_vars, dash_vars, tax_vars, file_vars,
                   user_vars>>

\* bot.py 639-645: main_menu_handler, an entry point and a handler of every
\* state
MainMenu(m, fetched) ==
    /\ MainMenuButton \in keyboard[m]
    /\ ShowProgramsMenu(m, "main_menu", fetched)

\* bot.py 405-422: search_start_handler deletes the message and sends the
\* search prompt in its place
SearchStart(m) ==
    /\ <<"search_start">> \in keyboard[m]
    /\ keyboard' = [keyboard EXCEPT ![m] = {MainMenuButton}]
    /\ handled' = Ended("search_start", "ok")
    /\ nav_key' = PyNone
    /\ UNCHANGED <<conv, path, pure_vars, clock, store_vars, cache_vars, proc_vars, report_vars, dash_vars, tax_vars, file_vars,
                   user_vars>>

\* the subjects a text search may find: x, y, and z, which the taxonomy of
\* subjects does not hold
SubjZ == PyStr(<<122>>)
SearchableSubjects == {SubjX, SubjY, SubjZ}

\* bot.py 425-443: handle_text_search sends the subjects found as buttons of a
\* new message; search_subjects, which finds them, is not part of db.py
HandleTextSearch(found) ==
    /\ found # {}
    /\ keyboard' = [keyboard EXCEPT !["m2"] =
                       {<<"subject_search", x>> : x \in found} \cup {MainMenuButton}]
    /\ handled' = Ended("text_search", "ok")
    /\ nav_key' = PyNone
    /\ UNCHANGED <<conv, path, pure_vars, clock, store_vars, cache_vars, proc_vars, report_vars, dash_vars, tax_vars, file_vars,
                   user_vars>>

\* bot.py 460-469: the programs with a key of subjects_doc that holds the
\* subject and names the program between underscores
MatchingPrograms(programs, subjects_doc, subject) ==
    {prog \in Elems(programs) :
        \E i \in 1..Len(subjects_doc.val) :
            LET key == subjects_doc.val[i][1]
                values == subjects_doc.val[i][2]
            IN  /\ IsList(values)
                /\ subject \in Elems(values.val)
                /\ prog \in Elems(SplitUnderscore(key.val, 1, <<>>))}

\* bot.py 446-497: subject_search_handler
SubjectSearch(m, subject, fetched) ==
    /\ <<"subject_search", subject>> \in keyboard[m]
    /\ path' = [EmptyPath EXCEPT !["subject"] = subject]
    /\ nav_key' = PyNone
    /\ LET programs == extract_program_list(TaxonomyDoc("programs"))
       IN  IF fetched # "doc" \/ programs.exc # "none"
           THEN /\ keyboard' = keyboard
                /\ handled' = Ended("subject_search", "raised")
           ELSE LET found == MatchingPrograms(programs.val,
                                              TaxonomyDoc("subjects"), subject)
                    matching_programs ==
                        IF found = {} THEN Elems(programs.val) ELSE found
                IN  /\ keyboard' = [keyboard EXCEPT ![m] =
                           {<<"program_subject", prog, subject>> :
                               prog \in matching_programs}
                           \cup {MainMenuButton}]
                    /\ handled' = Ended("subject_search", "ok")
    /\ UNCHANGED <<conv, pure_vars, clock, store_vars, cache_vars, proc_vars, report_vars, dash_vars, tax_vars, file_vars,
                   user_vars>>

\* bot.py 517: the terms offered when the taxonomy has none for the program
DefaultTerms == {PyStr(<<1575, 1608, 1604>>), PyStr(<<1578, 1575, 1606, 1610>>)}

\* bot.py 500-531: program_subject_handler
ProgramSubject(m, program, subject, fetched) ==
    /\ <<"program_subject", program, subject>> \in keyboard[m]
    /\ path' = [EmptyPath EXCEPT !["program"] = program, !["subject"] = subject]
    /\ nav_key' = PyNone
    /\ LET resolved == resolve_taxonomy_options(TaxonomyDoc("terms"), program)
       IN  IF fetched # "doc" \/ resolved.exc # "none"
           THEN /\ keyboard' = keyboard
                /\ handled' = Ended("program_subject", "raised")
           ELSE LET terms == IF resolved.val = <<>> THEN DefaultTerms
                             ELSE Elems(resolved.val)
                IN  /\ keyboard' = [keyboard EXCEPT ![m] =
                           {<<"term_subject", program, t, subject>> : t \in terms}
                           \cup {<<"subject_search", subject>>, MainMenuButton}]
                    /\ handled' = Ended("program_subject", "ok")
    /\ UNCHANGED <<conv, pure_vars, clock, store_vars, cache_vars, proc_vars, report_vars, dash_vars, tax_vars, file_vars,
                   user_vars>>

\* bot.py 555-557: the ids of the file records of a subject
FilesOfSubject(program, term, subject) ==
    {f.id : f \in {r \in FileRecords :
                      /\ r.program = program
                      /\ r.term = term
                      /\ r.subject = subject}}

\* bot.py 534-609: term_subject_handler
TermSubject(m, program, term, subject, fetched) ==
    /\ <<"term_subject", program, term, subject>> \in keyboard[m]
    /\ nav_key' = PyNone
    /\ LET path1 == [EmptyPath EXCEPT !["program"] = program,
                                      !["term"] = term,
                                      !["subject"] = subject]
           lecture_key == PyStr(JoinUnderscore(<<program, term, subject>>))
           lectures == resolve_taxonomy_options(TaxonomyDoc("lectures"), lecture_key)
           back == <<"program_subject", program, subject>>
           found == FilesOfSubject(program, term, subject)
       IN  IF fetched # "doc" \/ lectures.exc # "none"
           THEN /\ path' = path1
                /\ keyboard' = keyboard
                /\ handled' = Ended("term_subject", "raised")
           ELSE IF lectures.val # <<>>
           THEN /\ path' = path1
                /\ keyboard' = [keyboard EXCEPT ![m] =
                       {<<"lecture", l>> : l \in Elems(lectures.val)}
                       \cup {back, MainMenuButton}]
                /\ handled' = Ended("term_subject", "ok")
           ELSE IF found # {}
           THEN /\ path' = [path1 EXCEPT !["lecture"] = PyStr(<<>>)]
                /\ keyboard' = [keyboard EXCEPT ![m] =
                       FileButtons(found) \cup {back, MainMenuButton}]
                /\ handled' = Ended("term_subject", "ok")
           ELSE /\ path' = path1
                /\ keyboard' = [keyboard EXCEPT ![m] = {back, MainMenuButton}]
                /\ handled' = Ended("term_subject", "ok")
    /\ UNCHANGED <<conv, pure_vars, clock, store_vars, cache_vars, proc_vars, report_vars, dash_vars, tax_vars, file_vars,
                   user_vars>>

\* the bot after start-up, the store holding the files of NavFiles
InitNav ==
    /\ PureIdle /\ CacheIdle /\ NavIdle /\ ReportIdle /\ SessionIdle
    /\ taxonomy = NoTaxonomy /\ TaxIdle
    /\ files = NavFiles
    /\ files_call = NoCall

\* the updates of one user, in any order: commands, text, and presses of the
\* buttons that the messages carry
NextNav ==
    \/ \E fetched \in FetchOutcomes : StartCommand(fetched)
    \/ StartInConversation
    \/ \E m \in Messages, fetched \in FetchOutcomes : MainMenu(m, fetched)
    \/ \E m \in Messages, fetched \in FetchOutcomes : \E b \in keyboard[m] :
          /\ b[1] \in {"program", "term", "subject"}
          /\ NavHandler(m, b[1], b[2], fetched)
    \/ \E m \in Messages, fetched \in {"doc", "StoreError"} : \E b \in keyboard[m] :
          /\ b[1] = "lecture"
          /\ LectureSelected(m, b[2], fetched)
    \/ \E m \in Messages, outcome \in FileOutcomes : \E b \in keyboard[m] :
          /\ b[1] = "file"
          /\ FileSelected(m, b[2], outcome)
    \/ \E m \in Messages : \E b \in keyboard[m] : UnknownCallback(m, b)
    \/ \E d \in files : DeleteFile(d.id)
    \/ \E m \in Messages : SearchStart(m)
    \/ \E found \in SUBSET SearchableSubjects : HandleTextSearch(found)
    \/ \E m \in Messages, fetched \in FetchOutcomes : \E b \in keyboard[m] :
          /\ b[1] = "subject_search"
          /\ SubjectSearch(m, b[2], fetched)
    \/ \E m \in Messages, fetched \in FetchOutcomes : \E b \in keyboard[m] :
          /\ b[1] = "program_subject"
          /\ ProgramSubject(m, b[2], b[3], fetched)
    \/ \E m \in Messages, fetched \in FetchOutcomes : \E b \in keyboard[m] :
          /\ b[1] = "term_subject"
          /\ TermSubject(m, b[2], b[3], b[4], fetched)

SpecNav == InitNav /\ [][NextNav]_vars

(***************************************************************************)
(* Claims about the navigation                                             *)
(***************************************************************************)
\* the place of a level in the fixed order program, term, subject
Depth(level) ==
    CASE level = "program" -> 1 [] level = "term" -> 2 [] level = "subject" -> 3

\* v is the value of a segment the path holds
Chosen(v) == v # NoSeg

\* the values the path holds for the segments up to and including level, in
\* the order program, term, subject
ChosenUpTo(level) ==
    SelectSeq(SubSeq(<<path["program"], path["term"], path["subject"]>>,
                     1, Depth(level)),
              Chosen)

\* a navigation handler built a lookup key in the last update
KeyBuilt == handled.name \in {"program", "term", "subject"} /\ nav_key # PyNone

\* C13: the lookup key a navigation handler builds for level L is the values
\* the path holds for program, term, subject, in that order, up to and
\* including L, joined by "_"; deeper segments of the path do not enter it
C13_KeyIsPathPrefix ==
    KeyBuilt => nav_key = PyStr(JoinUnderscore(ChosenUpTo(handled.name)))

\* after Back from the subject level the term handler built "p_1" while the
\* path still held a subject and a lecture
C13_Witness ==
    /\ handled = Ended("term", "ok")
    /\ path["subject"] = SubjX
    /\ path["lecture"] = Lect1
    /\ nav_key = PyStr(JoinUnderscore(<<ProgP, Term1>>))

\* C14: the lookup key a navigation handler builds has no empty token: it is
\* not empty, has no leading and no trailing "_" and no "_" next to another
C14_NoEmptyToken ==
    KeyBuilt =>
        /\ nav_key.ty = "str"
        /\ \A i \in 1..Len(SplitUnderscore(nav_key.val, 1, <<>>)) :
              SplitUnderscore(nav_key.val, 1, <<>>)[i] # PyStr(<<>>)

\* the subject handler built "p_x" for a path that lacks the term
C14_Witness ==
    /\ handled = Replied("subject", "error", "GENERIC_ERROR")
    /\ path["term"] = NoSeg
    /\ nav_key = PyStr(JoinUnderscore(<<ProgP, SubjX>>))

\* the conversation state that handles the selections of a level
StateOf(level) ==
    CASE level = "program" -> 1
      [] level = "term" -> 2
      [] level = "subject" -> 3
      [] level = "lecture" -> 4
      [] level = "file" -> 5

\* the conversation state after a successful selection at a level
Following(level) == IF level = "file" THEN 5 ELSE StateOf(level) + 1

\* the step handles an update of the user: it is no write to the File Store
UpdateStep == files' = files

\* C15: a selection at level L is handled only in a conversation state at or
\* beyond L; a successful selection at L sets the state that follows L; the
\* state never rises by more than one level in one update
C15_LevelByLevel ==
    [][/\ \A level \in {"program", "term", "subject", "lecture", "file"} :
             (UpdateStep /\ handled'.name = level) =>
                 /\ conv >= StateOf(level)
                 /\ handled'.outcome = "ok" => conv' = Following(level)
       /\ conv' > conv => conv' = conv + 1]_vars

\* from the files of a lecture the user went back level by level, and the
\* program handler, run in SELECT_SUBJECT or beyond, set SELECT_TERM
C15_Witness ==
    /\ handled = Ended("program", "ok")
    /\ conv = SELECT_TERM
    /\ path["lecture"] = Lect1
    /\ path["subject"] = SubjX

(***************************************************************************)
(* report_file_handler of bot.py: the rate limit of file reports           *)
(***************************************************************************)
\* bot.py 702: timedelta(hours=1), in seconds
Hour == 3600

\* bot.py 706: the reports of one user that an hour admits
ReportLimit == 3

\* the seconds that pass in one step of the clock between reports
ReportTick == 1200

\* the clock of the reports stops at MaxReportClock
MaxReportClock == 4800

\* the most reports of one user that are recorded
MaxAccepted == 5

\* a faulty variant of bot.py 700-703: a report one hour old is still counted
\* out, and so is every report older than half an hour
RecentHalfHour(tracker, now, i) ==
    now - tracker[i] < Hour - ReportTick

\* bot.py 702: now - ts < timedelta(hours=1)
Recent(tracker, now, i) == now - tracker[i] < Hour

\* bot.py 700-703: the reports of the last hour are kept, in order
RECURSIVE CleanOld(_, _, _)
CleanOld(tracker, now, i) ==
    IF i > Len(tracker) THEN <<>>
    ELSE (IF Recent(tracker, now, i) THEN <<tracker[i]>> ELSE <<>>)
         \o CleanOld(tracker, now, i + 1)

\* a faulty variant of bot.py 706-715: a rejected report is recorded in the
\* user's window as well
ReportFileRecordsRejected(u, later) ==
    /\ Len(accepted[u]) < MaxAccepted
    /\ LET now == clock
           cleaned == CleanOld(report_tracker[u], now, 1)
       IN  /\ report_tracker' = [report_tracker EXCEPT ![u] = Append(cleaned, now)]
           /\ IF Len(cleaned) >= ReportLimit
              THEN /\ accepted' = accepted
                   /\ report_answer' = [user |-> u, outcome |-> "rate_limit"]
              ELSE /\ accepted' = [accepted EXCEPT ![u] = Append(@, now)]
                   /\ report_answer' =
                          [user |-> u,
                           outcome |-> IF later = "ok" THEN "success" ELSE "error"]
    /\ UNCHANGED <<pure_vars, clock, store_vars, cache_vars, proc_vars, nav_vars, tax_vars, file_vars,
                   dash_vars>>

\* bot.py 689-745: report_file_handler for a report of user u; `later` tells
\* whether the steps after the report is recorded (answering the user, reading
\* the file details) end well or raise into the handler's except clause
ReportFile(u, later) ==
    /\ Len(accepted[u]) < MaxAccepted
    /\ LET now == clock
           cleaned == CleanOld(report_tracker[u], now, 1)
       IN  IF Len(cleaned) >= ReportLimit
           THEN /\ report_tracker' = [report_tracker EXCEPT ![u] = cleaned]
                /\ accepted' = accepted
                /\ report_answer' = [user |-> u, outcome |-> "rate_limit"]
           ELSE /\ report_tracker' = [report_tracker EXCEPT ![u] = Append(cleaned, now)]
                /\ accepted' = [accepted EXCEPT ![u] = Append(@, now)]
                /\ report_answer' =
                       [user |-> u,
                        outcome |-> IF later = "ok" THEN "success" ELSE "error"]
    /\ UNCHANGED <<pure_vars, clock, store_vars, cache_vars, proc_vars, nav_vars, tax_vars, file_vars,
                   dash_vars>>

\* time passes between reports
ReportClock ==
    /\ clock + ReportTick <= MaxReportClock
    /\ clock' = clock + ReportTick
    /\ UNCHANGED <<pure_vars, store_vars, cache_vars, proc_vars, ext_vars>>

InitReport == PureIdle /\ CacheIdle /\ ExtIdle

\* the report callbacks of the users, in any order, while time passes
NextReport ==
    \/ \E u \in Users, later \in {"ok", "raises"} : ReportFile(u, later)
    \/ ReportClock

SpecReport == InitReport /\ [][NextReport]_vars

\* the reports of u recorded less than one hour before the clock
RecentlyAccepted(u) ==
    {i \in 1..Len(accepted[u]) : clock - accepted[u][i] < 3600}

\* C16: at every instant at most 3 reports of a user were recorded during the
\* preceding hour, and a report that arrives while 3 recorded reports of the
\* user are less than one hour old is answered with the rate-limit alert and
\* not recorded
C16_ThreePerHour ==
    [][/\ \A u \in Users : Cardinality(RecentlyAccepted(u))' <= 3
       /\ \A u \in Users :
             (/\ clock' = clock
              /\ report_answer'.user = u
              /\ Cardinality(RecentlyAccepted(u)) >= 3)
             => /\ report_answer'.outcome = "rate_limit"
                /\ accepted' = accepted]_vars

\* user a, whose first report had been cleaned out after an hour, had three
\* reports less than one hour old and was turned away, after user b's report
\* was recorded
C16_Witness ==
    /\ clock = 4800
    /\ accepted["a"] = <<0, 3600, 3600, 4800>>
    /\ report_tracker["a"] = <<3600, 3600, 4800>>
    /\ report_answer = [user |-> "a", outcome |-> "rate_limit"]
    /\ Len(accepted["b"]) = 1

(***************************************************************************)
(* update_taxonomy (db.py 293-338): four merge writes with ArrayUnion,     *)
(* buffered in one transaction object and sent in one commit.              *)
(***************************************************************************)

\* names that the taxonomy of TaxonomyDoc does not hold yet
ProgR == PyStr(<<114>>)
Term3 == PyStr(<<51>>)
Lect2 == PyStr(<<109>>)

\* the arguments of the calls: names the taxonomy holds and names it lacks
TaxPrograms == {ProgP, ProgR}
TaxTerms == {Term1, Term3}
TaxSubjects == {SubjX, SubjZ}
TaxLectures == {Lect1, Lect2}

\* a faulty variant of ArrayUnion: the field is replaced by the new value alone
ArrayOverwrite(field, v) == PyList(<<v>>)

\* firestore.ArrayUnion([v]) applied to a field: v is appended unless the
\* array holds it; a field that is no array is replaced by [v]
ArrayUnion(field, v) ==
    IF IsList(field)
    THEN IF v \in Elems(field.val) THEN field ELSE PyList(Append(field.val, v))
    ELSE PyList(<<v>>)

\* set({key: ArrayUnion([v])}, merge=True) on document d: the other fields
\* of the document stay as they are
MergeSet(d, key, v) ==
    IF \E i \in 1..Len(d.val) : d.val[i][1] = key
    THEN PyDict([i \in 1..Len(d.val) |->
                    IF d.val[i][1] = key
                    THEN <<key, ArrayUnion(d.val[i][2], v)>>
                    ELSE d.val[i]])
    ELSE PyDict(Append(d.val, <<key, PyList(<<v>>)>>))

\* db.py 296-321: the writes that update_tx buffers, in order
UpdateTx(program, term, subject, lecture) ==
    << [doc |-> "programs", key |-> KeyList, value |-> program],
       [doc |-> "terms", key |-> program, value |-> term],
       [doc |-> "subjects", key |-> PyStr(JoinUnderscore(<<program, term>>)),
        value |-> subject],
       [doc |-> "lectures",
        key |-> PyStr(JoinUnderscore(<<program, term, subject>>)),
        value |-> lecture] >>

\* the store after the writes of one commit
RECURSIVE ApplyWrites(_, _)
ApplyWrites(tax, write_pbs) ==
    IF write_pbs = <<>> THEN tax
    ELSE ApplyWrites(
             [tax EXCEPT ![Head(write_pbs).doc] =
                 MergeSet(@, Head(write_pbs).key, Head(write_pbs).value)],
             Tail(write_pbs))

\* db.py 323-332: writer w calls update_taxonomy; the callback buffers its
\* writes in the transaction object, nothing reaches the store yet
UpdateTaxonomy(w, program, term, subject, lecture) ==
    /\ tx_pc[w] = "idle"
    /\ tx_pc' = [tx_pc EXCEPT ![w] = "buffered"]
    /\ tx_args' = [tx_args EXCEPT ![w] = <<program, term, subject, lecture>>]
    /\ tx_writes' = [tx_writes EXCEPT
                        ![w] = UpdateTx(program, term, subject, lecture)]
    /\ UNCHANGED <<taxonomy, tx_commits>>
    /\ UNCHANGED <<pure_vars, clock, store_vars, cache_vars, proc_vars,
                   nav_vars, report_vars, dash_vars, file_vars>>

\* db.py 331: transaction.commit() applies the buffered writes together
Commit(w) ==
    /\ tx_pc[w] = "buffered"
    /\ taxonomy' = ApplyWrites(taxonomy, tx_writes[w])
    /\ tx_commits' = [tx_commits EXCEPT ![w] = @ + 1]
    /\ tx_pc' = [tx_pc EXCEPT ![w] = "returned"]
    /\ UNCHANGED <<tx_args, tx_writes>>
    /\ UNCHANGED <<pure_vars, clock, store_vars, cache_vars, proc_vars,
                   nav_vars, report_vars, dash_vars, file_vars>>

\* a faulty variant of CommitFail: the first two writes are applied before
\* the commit is rejected
CommitFailPartial(w) ==
    /\ tx_pc[w] = "buffered"
    /\ taxonomy' = ApplyWrites(taxonomy, SubSeq(tx_writes[w], 1, 2))
    /\ tx_commits' = [tx_commits EXCEPT ![w] = @ + 1]
    /\ tx_pc' = [tx_pc EXCEPT ![w] = "raised"]
    /\ UNCHANGED <<tx_args, tx_writes>>
    /\ UNCHANGED <<pure_vars, clock, store_vars, cache_vars, proc_vars,
                   nav_vars, report_vars, dash_vars, file_vars>>

\* db.py 331, 336-338: the commit is rejected, no write is applied, the
\* exception is logged and raised again
CommitFail(w) ==
    /\ tx_pc[w] = "buffered"
    /\ tx_commits' = [tx_commits EXCEPT ![w] = @ + 1]
    /\ tx_pc' = [tx_pc EXCEPT ![w] = "raised"]
    /\ UNCHANGED <<taxonomy, tx_args, tx_writes>>
    /\ UNCHANGED <<pure_vars, clock, store_vars, cache_vars, proc_vars,
                   nav_vars, report_vars, dash_vars, file_vars>>

\* db.py 331, 336-338: the commit is applied but its reply is lost, the call
\* raises
CommitLostReply(w) ==
    /\ tx_pc[w] = "buffered"
    /\ taxonomy' = ApplyWrites(taxonomy, tx_writes[w])
    /\ tx_commits' = [tx_commits EXCEPT ![w] = @ + 1]
    /\ tx_pc' = [tx_pc EXCEPT ![w] = "raised"]
    /\ UNCHANGED <<tx_args, tx_writes>>
    /\ UNCHANGED <<pure_vars, clock, store_vars, cache_vars, proc_vars,
                   nav_vars, report_vars, dash_vars, file_vars>>

InitTaxonomy ==
    /\ PureIdle /\ CacheIdle /\ NavIdle /\ ReportIdle /\ SessionIdle /\ FilesIdle
    /\ taxonomy = [d \in TaxDocs |-> TaxonomyDoc(d)] /\ TaxIdle

\* the calls of the writers, interleaved in any order
NextTaxonomy ==
    \/ \E w \in Writers, program \in TaxPrograms, term \in TaxTerms,
          subject \in TaxSubjects, lecture \in TaxLectures :
          UpdateTaxonomy(w, program, term, subject, lecture)
    \/ \E w \in Writers : Commit(w)
    \/ \E w \in Writers : CommitFail(w)
    \/ \E w \in Writers : CommitLostReply(w)

SpecTaxonomy == InitTaxonomy /\ [][NextTaxonomy]_vars

\* the array stored in document d of store tax under key, <<>> when absent
ArrayAt(tax, d, key) ==
    IF IsList(DictGet(tax[d], key)) THEN DictGet(tax[d], key).val ELSE <<>>

\* the call of writer w ends in this step
C17_Step(w) == tx_pc[w] = "buffered" /\ tx_pc'[w] # "buffered"

\* after the step all four documents hold the values of w's call
C17_AllFour(w) ==
    \A i \in 1..4 :
        tx_writes[w][i].value
            \in Elems(ArrayAt(taxonomy', tx_writes[w][i].doc,
                              tx_writes[w][i].key))

\* the step keeps every key and every value of every document, in place
C17_MergeOnly ==
    \A d \in TaxDocs : \A i \in 1..Len(taxonomy[d].val) :
        /\ i <= Len(taxonomy'[d].val)
        /\ taxonomy'[d].val[i][1] = taxonomy[d].val[i][1]
        /\ Len(taxonomy'[d].val[i][2].val) >= Len(taxonomy[d].val[i][2].val)
        /\ SubSeq(taxonomy'[d].val[i][2].val, 1,
                  Len(taxonomy[d].val[i][2].val)) = taxonomy[d].val[i][2].val

\* the step adds to each array exactly the value it lacked
C17_NotTwice(w) ==
    \A i \in 1..4 :
        LET wr == tx_writes[w][i]
            old == ArrayAt(taxonomy, wr.doc, wr.key)
        IN  ArrayAt(taxonomy', wr.doc, wr.key) =
                IF wr.value \in Elems(old) THEN old ELSE Append(old, wr.value)

Holds(w) ==
    \A i \in 1..4 :
        UpdateTx(tx_args[w][1], tx_args[w][2], tx_args[w][3],
                 tx_args[w][4])[i].value
            \in Elems(ArrayAt(taxonomy,
                   UpdateTx(tx_args[w][1], tx_args[w][2], tx_args[w][3],
                            tx_args[w][4])[i].doc,
                   UpdateTx(tx_args[w][1], tx_args[w][2], tx_args[w][3],
                            tx_args[w][4])[i].key))

FileIds == <<"f1", "f2">>

\* code points: ' ', '.', and U+F8FF of db.py 135
Space == 32
Dot == 46
RangeEnd == 63743

\* str.upper() on the code points of the model
Upper(s) == [i \in 1..Len(s) |-> IF s[i] \in 97..122 THEN s[i] - 32 ELSE s[i]]

\* a faulty variant of str.strip(): the text is left as it is
StripNothing(s) == s

\* str.strip(): leading and trailing white space removed
RECURSIVE Strip(_)
Strip(s) ==
    IF s = <<>> THEN s
    ELSE IF Head(s) = Space THEN Strip(Tail(s))
    ELSE IF s[Len(s)] = Space THEN Strip(SubSeq(s, 1, Len(s) - 1))
    ELSE s

\* s.split('.')[-1]: what follows the last dot
RECURSIVE AfterLastDot(_)
AfterLastDot(s) ==
    IF Dot \notin Elems(s) THEN s
    ELSE AfterLastDot(Tail(s))

\* s.startswith(prefix)
StartsWith(s, prefix) ==
    /\ Len(s) >= Len(prefix)
    /\ SubSeq(s, 1, Len(prefix)) = prefix

\* a <= b on two str values, in the code point order of the store
StrLessEq(a, b) == a = b \/ StrLess(a, b)

\* the taxonomy paths of the stored files: one path and the four that differ
\* from it in a single field
FilePaths ==
    { <<ProgP, Term1, SubjX, Lect1>>, <<ProgQ, Term1, SubjX, Lect1>>,
      <<ProgP, Term2, SubjX, Lect1>>, <<ProgP, Term1, SubjY, Lect1>>,
      <<ProgP, Term1, SubjX, Lect2>> }

\* display names: "Ab", "a" followed by U+1F600, "b"
DisplayNames ==
    { PyStr(<<65, 98>>), PyStr(<<97, 128512>>), PyStr(<<98>>) }

\* original names: "a.pdf" and "a"
OriginalNames == { PyStr(<<97, Dot, 112, 100, 102>>), PyStr(<<97>>) }

\* Telegram file ids: "F", or none when the upload returned no id
FileIdValues == { PyStr(<<70>>), PyNone }

\* search texts: "a", " A ", "ab", "a" followed by U+1F600, "b", " ", "  "
\* and the empty text
Queries ==
    { PyStr(<<97>>), PyStr(<<Space, 65, Space>>), PyStr(<<97, 98>>),
      PyStr(<<97, 128512>>), PyStr(<<98>>), PyStr(<<Space>>),
      PyStr(<<Space, Space>>), PyStr(<<>>) }

\* the documents that save_file can have stored
FileDataPool ==
    { FileData(n, o, pth, f) :
        n \in DisplayNames, o \in OriginalNames, pth \in FilePaths,
        f \in FileIdValues }

\* 'ملف', the name shown for a file without one
DefaultName == PyStr(<<1605, 1604, 1601>>)

\* 'file.unknown' and 'FILE'
FileUnknown == PyStr(<<102, 105, 108, 101, Dot, 117, 110, 107, 110, 111, 119, 110>>)
FileTypeFile == PyStr(<<70, 73, 76, 69>>)

\* data.get(key, default)
GetOr(data, key, default) ==
    IF \E i \in 1..Len(data.val) : data.val[i][1] = key
    THEN DictGet(data, key)
    ELSE default

\* a or b
Or(a, b) == IF Truthy(a) THEN a ELSE b

\* a faulty variant of the query of db.py 90-95: the lecture filter is missing
MatchesNoLecture(data, program, term, subject, lecture) ==
    /\ DictGet(data, "program") = program
    /\ DictGet(data, "term") = term
    /\ DictGet(data, "subject") = subject

\* db.py 90-95: the four equality filters of the query
Matches(data, program, term, subject, lecture) ==
    /\ DictGet(data, "program") = program
    /\ DictGet(data, "term") = term
    /\ DictGet(data, "subject") = subject
    /\ DictGet(data, "lecture") = lecture

\* the documents of the set docs, in the order of ids
RECURSIVE InOrder(_, _)
InOrder(docs, ids) ==
    IF ids = <<>> THEN <<>>
    ELSE (IF \E d \in docs : d.id = Head(ids)
          THEN << CHOOSE d \in docs : d.id = Head(ids) >>
          ELSE <<>>) \o InOrder(docs, Tail(ids))

\* db.py 100-119: the record built for a document of the query result
FileRecord(d) ==
    LET original_name == GetOr(d.data, "original_name", FileUnknown)
        file_type == IF Dot \in Elems(original_name.val)
                     THEN PyStr(Upper(AfterLastDot(original_name.val)))
                     ELSE FileTypeFile
    IN  [display_name |-> Or(DictGet(d.data, "display_name"), DefaultName),
         file_id |-> DictGet(d.data, "file_id"),
         id |-> d.id,
         original_name |-> original_name,
         file_type |-> file_type,
         program |-> DictGet(d.data, "program"),
         term |-> DictGet(d.data, "term"),
         subject |-> DictGet(d.data, "subject"),
         lecture |-> DictGet(d.data, "lecture")]

\* db.py 87-121: get_files
GetFiles(program, term, subject, lecture) ==
    LET docs == InOrder({d \in files :
                            Matches(d.data, program, term, subject, lecture)},
                        FileIds)
    IN  /\ files_call' =
              [op |-> "get_files",
               args |-> <<program, term, subject, lecture>>,
               queried |-> TRUE,
               result |-> [i \in 1..Len(docs) |-> FileRecord(docs[i])]]
        /\ UNCHANGED files
        /\ UNCHANGED <<pure_vars, clock, store_vars, cache_vars, proc_vars,
                       nav_vars, report_vars, dash_vars, tax_vars>>

\* db.py 136: .limit(200)
SearchLimit == 200

\* db.py 134-135: the two range filters on name_lower
InRange(data, query) ==
    /\ DictGet(data, "name_lower").ty = "str"
    /\ StrLessEq(query, DictGet(data, "name_lower").val)
    /\ StrLessEq(DictGet(data, "name_lower").val, query \o <<RangeEnd>>)

\* the documents of the set docs in the order of name_lower, then of id
RECURSIVE ByNameLower(_)
ByNameLower(docs) ==
    IF docs = <<>> THEN <<>>
    ELSE LET first ==
                 CHOOSE i \in 1..Len(docs) : \A j \in 1..Len(docs) :
                     \/ StrLess(DictGet(docs[i].data, "name_lower").val,
                                DictGet(docs[j].data, "name_lower").val)
                     \/ /\ DictGet(docs[i].data, "name_lower")
                               = DictGet(docs[j].data, "name_lower")
                        /\ i <= j
         IN  <<docs[first]>>
             \o ByNameLower([k \in 1..(Len(docs) - 1) |->
                                IF k < first THEN docs[k] ELSE docs[k + 1]])

\* the records of the documents that have a file_id, in order
RECURSIVE SearchRecords(_)
SearchRecords(docs) ==
    IF docs = <<>> THEN <<>>
    ELSE (IF Truthy(DictGet(Head(docs).data, "file_id"))
          THEN << [display_name |->
                       Or(DictGet(Head(docs).data, "display_name"),
                          Or(DictGet(Head(docs).data, "original_name"),
                             DefaultName)),
                   file_id |-> DictGet(Head(docs).data, "file_id"),
                   id |-> Head(docs).id] >>
          ELSE <<>>) \o SearchRecords(Tail(docs))

\* db.py 124-143: search_files
SearchFiles(q) ==
    LET query == Strip(Lower(q.val))
        docs == ByNameLower(InOrder({d \in files : InRange(d.data, query)},
                                    FileIds))
        limited == SubSeq(docs, 1, IF Len(docs) < SearchLimit
                                   THEN Len(docs) ELSE SearchLimit)
    IN  /\ files_call' =
              IF query = <<>>
              THEN [op |-> "search_files", args |-> <<q>>,
                    queried |-> FALSE, result |-> <<>>]
              ELSE [op |-> "search_files", args |-> <<q>>,
                    queried |-> TRUE, result |-> SearchRecords(limited)]
        /\ UNCHANGED files
        /\ UNCHANGED <<pure_vars, clock, store_vars, cache_vars, proc_vars,
                       nav_vars, report_vars, dash_vars, tax_vars>>

\* the files collection holds any documents that save_file can have stored
InitFiles ==
    /\ PureIdle /\ CacheIdle /\ NavIdle /\ ReportIdle /\ SessionIdle
    /\ taxonomy = NoTaxonomy /\ TaxIdle
    /\ \E ids \in SUBSET Elems(FileIds) :
       \E data \in [Elems(FileIds) -> FileDataPool] :
           files = {[id |-> i, data |-> data[i]] : i \in ids}
    /\ files_call = NoCall

\* reads of the File Store, in any order
NextFiles ==
    \/ \E pth \in FilePaths : GetFiles(pth[1], pth[2], pth[3], pth[4])
    \/ \E q \in Queries : SearchFiles(q)

SpecFiles == InitFiles /\ [][NextFiles]_vars

\* the document of the files collection with the given id
FileById(id) == CHOOSE d \in files : d.id = id

C20_PrefixInRange ==
    (files_call.op = "search_files" /\ files_call.queried) =>
        LET query == Strip(Lower(files_call.args[1].val))
            r == files_call.result
        IN  /\ Len(r) <= 200
            /\ \A i \in 1..Len(r) :
                   /\ \E d \in files : d.id = r[i].id
                   /\ Truthy(DictGet(FileById(r[i].id).data, "file_id"))
                   /\ StartsWith(DictGet(FileById(r[i].id).data,
                                         "name_lower").val, query)
            /\ \A d \in files :
                   StartsWith(DictGet(d.data, "name_lower").val, query)
                   => InRange(d.data, query)

\* C21: search_files with an empty text or with a text of white space only
\* returns the empty list and makes no call to the store.
C21_EmptyQueryNoStoreCall ==
    (/\ files_call.op = "search_files"
     /\ \A i \in 1..Len(files_call.args[1].val) :
            files_call.args[1].val[i] = Space)
    => /\ files_call.result = <<>>
       /\ ~files_call.queried

\* the store holds a file with a file_id, and the text "  " was searched
C21_Witness ==
    /\ files_call.op = "search_files"
    /\ files_call.args = << PyStr(<<Space, Space>>) >>
    /\ files_call.result = <<>>
    /\ \E d \in files : Truthy(DictGet(d.data, "file_id"))

\* C22: get_file_details returns the empty mapping when no file document has
\* the id; when the button of such a file is pressed and the store answers,
\* file_selected_handler shows the file-not-found text, sends no document
\* and the conversation stays in SELECT_FILE.
C22_MissingFileNotFound ==
    [][\A id \in Elems(FileIds) :
          (~\E d \in files : d.id = id) =>
              /\ GetFileDetails(id) = PyDict(<<>>)
              /\ \A m \in Messages, outcome \in FileOutcomes \ {"raised"} :
                     FileSelected(m, id, outcome) =>
                         /\ handled'.reply = "FILE_NOT_FOUND"
                         /\ conv = SELECT_FILE
                         /\ conv' = SELECT_FILE]_vars

\* the file was deleted after its button was shown; the press was answered
\* with the file-not-found text in SELECT_FILE
C22_Witness ==
    /\ files = {}
    /\ handled = Replied("file", "ok", "FILE_NOT_FOUND")
    /\ conv = SELECT_FILE
    /\ path["lecture"] = Lect1

(***************************************************************************)
(* The writers of the File Store: save_file (db.py 341-362) and the        *)
(* dashboard's edit through update_file_metadata (db.py 365-378).          *)
(***************************************************************************)

\* the empty name, the program or term of a year that requires none
NoName == PyStr(<<>>)

\* the paths the dashboard submits: two lectures of one subject, and a
\* lecture of a year that has neither programs nor terms
StorePaths ==
    { <<ProgP, Term1, SubjX, Lect1>>, <<ProgP, Term1, SubjX, Lect2>>,
      <<NoName, NoName, SubjY, Lect1>> }

\* the display names typed into the dashboard: "Ab", " Ab" and, in the edit
\* form only, the empty name
TypedNames == { PyStr(<<65, 98>>), PyStr(<<Space, 65, 98>>) }
EditNames == TypedNames \cup { NoName }

\* the texts searched: the prefixes "a", "ab", " a" and " ab" of the
\* lower-cased names
StoreQueries ==
    { PyStr(<<97>>), PyStr(<<97, 98>>), PyStr(<<Space, 97>>),
      PyStr(<<Space, 97, 98>>) }

\* db.py 341-356: save_file by writer w; the document is set under a new id
\* and update_taxonomy is called, which buffers its writes
SaveFile(w, id, display_name, original_name, pth, file_id) ==
    /\ tx_pc[w] = "idle"
    /\ ~\E d \in files : d.id = id
    /\ files' = files \cup
           {[id |-> id,
             data |-> FileData(display_name, original_name, pth, file_id)]}
    /\ tx_pc' = [tx_pc EXCEPT ![w] = "buffered"]
    /\ tx_args' = [tx_args EXCEPT ![w] = pth]
    /\ tx_writes' = [tx_writes EXCEPT
                        ![w] = UpdateTx(pth[1], pth[2], pth[3], pth[4])]
    /\ UNCHANGED <<taxonomy, tx_commits, files_call>>
    /\ UNCHANGED <<pure_vars, clock, store_vars, cache_vars, proc_vars,
                   nav_vars, report_vars, dash_vars>>

\* db.py 351, 360-362: doc_ref.set raises; nothing is written, the exception
\* is logged and raised again
SaveFileFail(w) ==
    /\ tx_pc[w] = "idle"
    /\ tx_pc' = [tx_pc EXCEPT ![w] = "raised"]
    /\ UNCHANGED <<taxonomy, tx_args, tx_writes, tx_commits, file_vars>>
    /\ UNCHANGED <<pure_vars, clock, store_vars, cache_vars, proc_vars,
                   nav_vars, report_vars, dash_vars>>

\* db.py 369-374: doc_ref.update(new_data) with the display name and path of
\* new_data; name_lower is the lower-cased, stripped display name
UpdatedData(data, display_name, pth) ==
    PyDict(<< <<"display_name", display_name>>,
              <<"original_name", DictGet(data, "original_name")>>,
              <<"program", pth[1]>>, <<"term", pth[2]>>,
              <<"subject", pth[3]>>, <<"lecture", pth[4]>>,
              <<"file_id", DictGet(data, "file_id")>>,
              <<"name_lower", PyStr(Strip(Lower(display_name.val)))>> >>)

\* db.py 365-378: update_file_metadata of an existing document
UpdateFileMetadata(doc_id, display_name, pth) ==
    /\ \E d \in files : d.id = doc_id
    /\ files' = {IF d.id = doc_id
                 THEN [id |-> d.id,
                       data |-> UpdatedData(d.data, display_name, pth)]
                 ELSE d : d \in files}
    /\ UNCHANGED files_call
    /\ UNCHANGED <<pure_vars, clock, store_vars, cache_vars, proc_vars,
                   nav_vars, report_vars, dash_vars, tax_vars>>

\* dashboard.py 857-858: the display name of the edit payload, the stripped
\* text of the form or, when that is empty, the name the file has
EditedName(typed, data) ==
    Or(PyStr(Strip(typed.val)), DictGet(data, "display_name"))

\* an empty File Store and taxonomy, no call in flight
InitStore ==
    /\ PureIdle /\ CacheIdle /\ NavIdle /\ ReportIdle /\ SessionIdle
    /\ taxonomy = NoTaxonomy /\ TaxIdle
    /\ FilesIdle

\* uploads, edits and searches in any order
NextStore ==
    \/ \E w \in Writers, id \in Elems(FileIds), n \in TypedNames,
          pth \in StorePaths :
          SaveFile(w, id, n, PyStr(<<97, Dot, 112, 100, 102>>), pth,
                   PyStr(<<70>>))
    \/ \E w \in Writers : SaveFileFail(w)
    \/ \E w \in Writers : Commit(w)
    \/ \E w \in Writers : CommitFail(w)
    \/ \E w \in Writers : CommitLostReply(w)
    \/ \E d \in files, typed \in EditNames :
          UpdateFileMetadata(d.id, EditedName(typed, d.data),
                             <<DictGet(d.data, "program"),
                               DictGet(d.data, "term"),
                               DictGet(d.data, "subject"),
                               DictGet(d.data, "lecture")>>)
    \/ \E q \in StoreQueries : SearchFiles(q)

SpecStore == InitStore /\ [][NextStore]_vars

\* C23 as stated: every file document that save_file wrote or
\* update_file_metadata changed has name_lower equal to its lower-cased
\* display_name; a search for a prefix of the lower-cased display_name of a
\* stored file returns that file; and when save_file returns, the taxonomy
\* holds the program, term, subject and lecture of the file.
C23_NameLowerSearchable ==
    [][/\ \A d \in files' :
              DictGet(d.data, "name_lower")
                  = PyStr(Lower(DictGet(d.data, "display_name").val))
       /\ \A q \in StoreQueries :
              SearchFiles(q) =>
                  \A d \in files :
                      StartsWith(Lower(DictGet(d.data, "display_name").val),
                                 q.val)
                      => \E i \in 1..Len(files_call'.result) :
                             files_call'.result[i].id = d.id
       /\ \A w \in Writers :
              (tx_pc[w] = "buffered" /\ tx_pc'[w] = "returned")
              => \A i \in 1..4 :
                     tx_writes[w][i].value
                         \in Elems(ArrayAt(taxonomy', tx_writes[w][i].doc,
                                           tx_writes[w][i].key))]_vars

(***************************************************************************)
(* Two users of the bot: the ConversationHandler keeps one conversation    *)
(* per chat and user (bot.py 823-825), context.user_data is the mapping of *)
(* the update's user, and _report_tracker is keyed by the user id.         *)
(***************************************************************************)

\* what the bot keeps for the user whose update is being handled
Slice == [conv |-> conv, path |-> path, keyboard |-> keyboard]

\* a faulty variant of the dispatch: the conversation and user_data are
\* shared by all users
DispatchShared(u) ==
    /\ u # cur
    /\ cur' = u
    /\ UNCHANGED <<conv, path, keyboard, handled, nav_key, parked>>
    /\ UNCHANGED <<pure_vars, clock, store_vars, cache_vars, proc_vars,
                   report_vars, dash_vars, tax_vars, file_vars>>

\* bot.py 823-825, 116-119: an update of user u arrives after one of another
\* user; its handler gets the conversation state and the user_data of u
Dispatch(u) ==
    /\ u # cur
    /\ cur' = u
    /\ parked' = [parked EXCEPT ![cur] = Slice, ![u] = NoSlice]
    /\ conv' = parked[u].conv
    /\ path' = parked[u].path
    /\ keyboard' = parked[u].keyboard
    /\ UNCHANGED <<handled, nav_key>>
    /\ UNCHANGED <<pure_vars, clock, store_vars, cache_vars, proc_vars,
                   report_vars, dash_vars, tax_vars, file_vars>>

\* the updates of two users in any order: commands, button presses along the
\* menus, and reports
NextUsers ==
    \/ \E u \in Users : Dispatch(u)
    \/ StartCommand("doc")
    \/ \E m \in Messages : MainMenu(m, "doc")
    \/ \E m \in Messages : \E b \in keyboard[m] :
          /\ b[1] \in {"program", "term", "subject"}
          /\ NavHandler(m, b[1], b[2], "doc")
    \/ \E m \in Messages : \E b \in keyboard[m] :
          /\ b[1] = "lecture"
          /\ LectureSelected(m, b[2], "doc")
    \/ ReportFile(cur, "ok")

SpecUsers == InitNav /\ [][NextUsers]_vars

\* what the bot keeps for user v
UserState(v) == IF v = cur THEN Slice ELSE parked[v]

ItemOf(d, key) ==
    IF \E i \in 1..Len(d.val) : d.val[i][1] = key
    THEN CHOOSE i \in 1..Len(d.val) : d.val[i][1] = key
    ELSE 0

\* a faulty variant: options = doc.get(lkey), the accumulator is the
\* document's own list
OptionsAliased(d, key) ==
    IF IsList(DictGet(d, key)) THEN ItemOf(d, key) ELSE 0

\* bot.py 223 `options: list[str] = []` and bot.py 197 `programs = []`: the
\* accumulator is a new list
Accumulator(d, key) == 0

\* target.extend(value)
Extend(run, value) ==
    IF run.bound = 0 THEN [run EXCEPT !.own = @ \o value.val]
    ELSE [run EXCEPT !.items[run.bound][2] = PyList(@.val \o value.val)]

\* the loop of bot.py 228-232 over the items of the document
RECURSIVE ResolveWrites(_, _, _)
ResolveWrites(run, lkey, i) ==
    IF i > Len(run.items) THEN run
    ELSE LET key == run.items[i][1]
             value == run.items[i][2]
         IN  IF key = lkey \/ ~IsList(value) \/ key.ty # "str"
             THEN ResolveWrites(run, lkey, i + 1)
             ELSE IF EndsWith(key.val, <<Underscore>> \o lkey.val)
             THEN ResolveWrites(Extend(run, value), lkey, i + 1)
             ELSE ResolveWrites(run, lkey, i + 1)

\* the document after resolve_taxonomy_options(d, lkey), bot.py 219-233
AfterResolve(d, lkey) ==
    IF ~IsDict(d) \/ ~Truthy(lkey) THEN d
    ELSE LET direct == DictGet(d, lkey)
             run0 == [items |-> d.val, bound |-> Accumulator(d, lkey),
                      own |-> <<>>]
             run1 == IF IsList(direct) /\ run0.bound = 0
                     THEN Extend(run0, direct) ELSE run0
         IN  PyDict(ResolveWrites(run1, lkey, 1).items)

\* the loop of bot.py 203-205 over the items of the document
RECURSIVE ExtractWrites(_, _)
ExtractWrites(run, i) ==
    IF i > Len(run.items) THEN run
    ELSE LET key == run.items[i][1]
             value == run.items[i][2]
         IN  IF key = KeyList \/ ~IsList(value) THEN ExtractWrites(run, i + 1)
             ELSE ExtractWrites(Extend(run, value), i + 1)

\* the document after extract_program_list(d), bot.py 193-216
AfterExtract(d) ==
    IF ~IsDict(d) THEN d
    ELSE LET base == DictGet(d, KeyList)
             run0 == [items |-> d.val, bound |-> Accumulator(d, KeyList),
                      own |-> <<>>]
             run1 == IF IsList(base) /\ run0.bound = 0
                     THEN Extend(run0, base) ELSE run0
         IN  PyDict(ExtractWrites(run1, 1).items)

\* a lookup of a navigation handler on the cached document, bot.py 123-140;
\* any number of them follow each other
Lookup(k) ==
    /\ call' = "resolve"
    /\ lookup_key' = k
    /\ result' = resolve_taxonomy_options(doc, k)
    /\ doc' = AfterResolve(doc, k)
    /\ UNCHANGED <<ext_vars, clock, store_vars, cache_vars, proc_vars>>

\* the lookup of show_programs_menu on the cached document, bot.py 246-247
LookupPrograms ==
    /\ call' = "extract"
    /\ result' = extract_program_list(doc)
    /\ doc' = AfterExtract(doc)
    /\ UNCHANGED <<ext_vars, lookup_key, clock, store_vars, cache_vars,
                   proc_vars>>

NextLookups ==
    \/ \E k \in LookupPool : Lookup(k)
    \/ LookupPrograms

\* the most list entries the cached document of the lookups holds
MaxLookupEntries == 3

\* the cached document is a well-typed taxonomy document
InitLookups ==
    /\ DocIs(<<>>, KeyPool, EntryPool, MaxLookupEntries)
    /\ lookup_key = PyStr(<<>>)
    /\ call = "none"
    /\ result = Returned(<<>>)
    /\ CacheIdle
    /\ ExtIdle

SpecLookups == InitLookups /\ [][NextLookups]_vars

\* C25: a lookup leaves the document it is given as it was, so the cached
\* document stays what was fetched however many lookups read it, and a lookup
\* that repeats the previous one (same function, same key, same document)
\* returns the same result.
C25_LookupsLeaveDocument ==
    [][/\ doc' = doc
       /\ (call # "none" /\ call' = call /\ lookup_key' = lookup_key)
              => result' = result]_vars

\* the programs were extracted after a lookup of "t" in a document that holds
\* entries under "t" and under "s_t", whose key ends with "_t"
C25_Witness ==
    /\ call = "extract"
    /\ lookup_key = KeyT
    /\ IsDict(doc)
    /\ IsList(DictGet(doc, KeyT)) /\ Truthy(DictGet(doc, KeyT))
    /\ IsList(DictGet(doc, KeyST)) /\ Truthy(DictGet(doc, KeyST))
    /\ IsList(DictGet(doc, KeyList)) /\ Truthy(DictGet(doc, KeyList))

(***************************************************************************)
(* Writer and reader of the taxonomy: update_taxonomy (db.py 293-338)      *)
(* fills an empty Taxonomy Store with what the dashboard submits, and the  *)
(* navigation (bot.py 112-140, 246-247) reads it back through a cache that *)
(* holds no older entry.                                                   *)
(***************************************************************************)

\* dashboard.py 999: the program is one of the configured options, here "p"
\* or "p_1", or '' for a year whose rules require no program
FormPrograms == {PyStr(<<>>), ProgP, PyStr(JoinUnderscore(<<ProgP, Term1>>))}

\* dashboard.py 1000: the term is a configured option or '' for a year whose
\* rules require no term
FormTerms == {PyStr(<<>>), Term1}

\* dashboard.py 377: the subject is free text, here "x" or "1_x"
FormSubjects == {SubjX, PyStr(JoinUnderscore(<<Term1, SubjX>>))}

\* dashboard.py 964: the lecture is free text
FormLectures == {Lect1, Lect2}

\* context.user_data['path'] after the selections of a program, a term and a
\* subject
PathTo(program, term, subject) ==
    [EmptyPath EXCEPT !["program"] = program, !["term"] = term,
                      !["subject"] = subject]

\* db.py 154-160 on a cache miss: doc.to_dict() if doc.exists else {}
Fetched(tax, doc_id) == tax[doc_id]

\* bot.py 246-247: the programs show_programs_menu offers
OfferedPrograms(tax) == extract_program_list(Fetched(tax, "programs"))

\* bot.py 123-140: the options the handler of key_name offers for the path
Offered(tax, key_name, pth) ==
    resolve_taxonomy_options(Fetched(tax, TaxonomyDocKey(key_name)),
                             BuildLookupKey(pth, key_name))

\* the navigation offers program, term, subject and lecture, each after the
\* selections before it
Navigable(tax, program, term, subject, lecture) ==
    LET pth == PathTo(program, term, subject)
    IN  /\ program \in Elems(OfferedPrograms(tax).val)
        /\ term \in Elems(Offered(tax, "program", pth).val)
        /\ subject \in Elems(Offered(tax, "term", pth).val)
        /\ lecture \in Elems(Offered(tax, "subject", pth).val)

InitForms ==
    /\ PureIdle /\ CacheIdle /\ NavIdle /\ ReportIdle /\ SessionIdle /\ FilesIdle
    /\ taxonomy = NoTaxonomy /\ TaxIdle

\* the uploads of the dashboard, each committed or rejected by the store
NextForms ==
    \/ \E w \in Writers, program \in FormPrograms, term \in FormTerms,
          subject \in FormSubjects, lecture \in FormLectures :
          UpdateTaxonomy(w, program, term, subject, lecture)
    \/ \E w \in Writers : Commit(w)
    \/ \E w \in Writers : CommitFail(w)

SpecForms == InitForms /\ [][NextForms]_vars

\* the writers whose transaction was applied
Applied == {w \in Writers : tx_pc[w] = "returned"}

\* C26: after update_taxonomy(p, t, s, l) committed, the navigation offers p
\* among the programs, t after p, s after p and t, and l after p, t and s,
\* for every p, t, s, l the dashboard submits, an empty program or term
\* included.
C26_WrittenPathNavigable ==
    \A w \in Applied :
        Navigable(taxonomy, tx_args[w][1], tx_args[w][2], tx_args[w][3],
                  tx_args[w][4])

\* the paths the dashboard writes
FormPaths == FormPrograms \X FormTerms \X FormSubjects

\* the values the applied writes put under the first n segments of pth
WrittenFor(pth, n) ==
    {tx_args[w][n + 1] :
        w \in {v \in Applied : SubSeq(tx_args[v], 1, n) = SubSeq(pth, 1, n)}}

\* the options the navigation resolves after the first n segments of pth
ResolvedFor(tax, pth, n) ==
    Elems(Offered(tax, order[n], PathTo(pth[1], pth[2], pth[3])).val)

\* C27: in a taxonomy that only update_taxonomy filled, the options resolved
\* for a path are values written for exactly that path, and two different
\* paths have different lookup keys.
C27_OptionsOfExactPath ==
    /\ \A pth \in FormPaths : \A n \in 1..3 :
           ResolvedFor(taxonomy, pth, n) \subseteq WrittenFor(pth, n)
    /\ \A w1, w2 \in Applied :
           SubSeq(tx_args[w1], 1, 3) # SubSeq(tx_args[w2], 1, 3) =>
               BuildLookupKey(PathTo(tx_args[w1][1], tx_args[w1][2],
                                     tx_args[w1][3]), "subject") #
               BuildLookupKey(PathTo(tx_args[w2][1], tx_args[w2][2],
                                     tx_args[w2][3]), "subject")

(***************************************************************************)
(* The routing of callback buttons, bot.py 782-841                         *)
(***************************************************************************)
\* an update with the callback data of button b reaches the handler written
\* for it when the conversation is in state c: the handlers of the search
\* flow and of reports are global (bot.py 828-832), main_menu is an entry
\* point and a handler of every state, a navigation handler is registered in
\* the state of its level and in the deeper ones, file_selected_handler in
\* SELECT_FILE alone
Routed(b, c) ==
    CASE b[1] \in {"program", "term", "subject", "lecture"} -> c >= Level(b[1])
      [] b[1] = "file" -> c = Level("file")
      [] OTHER -> TRUE

\* C28: every button of a message that a handler rendered reaches its own
\* handler when it is pressed in the conversation state the handler left;
\* the lecture and file buttons of the search flow reach
\* lecture_selected_handler and file_selected_handler.
C28_RenderedButtonsRouted ==
    [][\A m \in Messages :
           keyboard'[m] # keyboard[m] =>
               \A b \in keyboard'[m] : Routed(b, conv')]_vars

\* C29: while the store is reachable a lookup returns a mapping: no call of
\* get_taxonomy_doc ends with an exception other than the failure of the
\* store, also when the entry expires or is evicted between the membership
\* test of db.py 150 and the read of db.py 152.
C29_LookupReturnsMapping ==
    \A p \in Procs :
        pc[p] = "idle" => ret[p].kind \in {"none", "doc", "StoreError"}

\* C30: the reads through the cache are monotonic: once a call returned a
\* version of a document that includes a write, no call that begins later
\* returns a version of it that lacks the write, whatever the interleaving of
\* lookups and store writes.
C30_MonotonicReads ==
    [][\A p \in Procs :
           (pc[p] # "idle" /\ pc'[p] = "idle" /\ ret'[p].kind = "doc") =>
               {x \in observed.before[p] : x[1] = arg[p]} \subseteq ret'[p].doc]_vars

(***************************************************************************)
(* Claims about selections handled with an incomplete path                 *)
(***************************************************************************)
\* the segments the step of a level needs: the ones before it in the order
\* program, term, subject, lecture
Needs(level) ==
    CASE level = "program" -> {}
      [] level = "term" -> {"program"}
      [] level = "subject" -> {"program", "term"}
      [] level = "lecture" -> {"program", "term", "subject"}

\* pth lacks a segment the step of level needs
Lacks(pth, level) == \E f \in Needs(level) : pth[f] = NoSeg

\* the handler of level caught the error: the generic error is shown, the
\* conversation is in SELECT_PROGRAM and no file query was issued
GenericError(level) ==
    /\ handled = Replied(level, "error", "GENERIC_ERROR")
    /\ conv = SELECT_PROGRAM
    /\ ~handled.get_files

\* the selections that are handled with a path that lacks a needed segment,
\* where the fetch of the taxonomy document ends as one of `fetches`
IncompleteHandled(fetches) ==
    \A m \in Messages : \A b \in keyboard[m] :
        /\ \A fetched \in fetches :
               (/\ b[1] \in {"term", "subject"}
                /\ NavHandler(m, b[1], b[2], fetched)
                /\ Lacks(path', b[1])) => GenericError(b[1])'
        /\ \A fetched \in {"doc", "StoreError"} :
               (/\ b[1] = "lecture"
                /\ LectureSelected(m, b[2], fetched)
                /\ Lacks(path, "lecture")) => GenericError("lecture")'

ResetUpdate ==
    \/ StartCommand("doc")
    \/ StartInConversation
    \/ \E m \in Messages : MainMenu(m, "doc")

\* C32: from any conversation state, /start or the main_menu callback leaves
\* the user's path empty and the conversation in SELECT_PROGRAM, so that no
\* segment chosen before enters a lookup key or a file query built after it.
\* Stated for the updates whose fetch of the programs document succeeds.
C32_ResetFromAnyState ==
    [][ResetUpdate => (path' = EmptyPath /\ conv' = SELECT_PROGRAM)]_vars

(***************************************************************************)
(* Claims about rejected reports                                           *)
(***************************************************************************)
\* C33: a rejected report is not recorded, so the window of a user holds
\* recorded reports only, and a report of a user of whose recorded reports
\* fewer than 3 are less than one hour old is recorded, however many reports
\* were rejected before.
C33_RejectionsDoNotProlong ==
    [][\A u \in Users :
           /\ Elems(report_tracker'[u]) \subseteq Elems(accepted'[u])
           /\ \A later \in {"ok", "raises"} :
                  ReportFile(u, later) =>
                      IF Cardinality(RecentlyAccepted(u)) < 3
                      THEN /\ accepted'[u] = Append(accepted[u], clock)
                           /\ report_answer'.outcome # "rate_limit"
                      ELSE /\ report_answer'.outcome = "rate_limit"
                           /\ accepted' = accepted
                           /\ Len(report_tracker'[u]) = 3]_vars

\* user a, whose three reports at 0 filled the window, is recorded again at
\* 3600, one hour after them, and the window holds that report alone
C33_Witness ==
    /\ clock = 3600
    /\ accepted["a"] = <<0, 0, 0, 3600>>
    /\ report_tracker["a"] = <<3600>>
    /\ report_answer = [user |-> "a", outcome |-> "success"]

(***************************************************************************)
(* delete_lecture_and_files (db.py 394-415), called by the dashboard       *)
(* (dashboard.py 476-501), next to the other writers of the File Store and *)
(* of the taxonomy.                                                        *)
(***************************************************************************)

\* firestore.ArrayRemove([v]) applied to a field: every element equal to v
\* is taken out; a field that is no array becomes the empty array
ArrayRemove(field, v) ==
    IF IsList(field)
    THEN PyList(SelectSeq(field.val, LAMBDA x : x # v))
    ELSE PyList(<<>>)

\* set({key: ArrayRemove([v])}, merge=True) on document d: the other fields
\* of the document stay as they are
MergeRemove(d, key, v) ==
    IF \E i \in 1..Len(d.val) : d.val[i][1] = key
    THEN PyDict([i \in 1..Len(d.val) |->
                    IF d.val[i][1] = key
                    THEN <<key, ArrayRemove(d.val[i][2], v)>>
                    ELSE d.val[i]])
    ELSE PyDict(Append(d.val, <<key, PyList(<<>>)>>))

\* dashboard.py 377: a subject typed as free text, "p_1_x"
SubjLong == PyStr(JoinUnderscore(<<ProgP, Term1, SubjX>>))

\* the paths the dashboard works on: two lectures of subject "x", and a
\* lecture of the subject "p_1_x" of the same program and term
LecturePaths ==
    { <<ProgP, Term1, SubjX, Lect1>>, <<ProgP, Term1, SubjX, Lect2>>,
      <<ProgP, Term1, SubjLong, Lect1>> }

\* a delete_lecture_and_files call is between two of its awaits
Deleting ==
    /\ files_call.op = "delete_lecture_and_files"
    /\ files_call.pc \in {"queried", "deleted"}

\* db.py 398: files_to_delete = await get_files(program, term, subject,
\* lecture); the query answers or raises
DeleteLectureQuery(program, term, subject, lecture, outcome) ==
    LET docs == InOrder({d \in files :
                            Matches(d.data, program, term, subject, lecture)},
                        FileIds)
    IN  /\ files_call = NoCall
        /\ files_call' =
              [op |-> "delete_lecture_and_files",
               args |-> <<program, term, subject, lecture>>,
               queried |-> TRUE,
               result |-> IF outcome = "ok"
                          THEN [i \in 1..Len(docs) |-> FileRecord(docs[i])]
                          ELSE <<>>,
               pc |-> IF outcome = "ok" THEN "queried" ELSE "raised"]
        /\ UNCHANGED files
        /\ UNCHANGED <<pure_vars, clock, store_vars, cache_vars, proc_vars,
                       nav_vars, report_vars, dash_vars, tax_vars>>

\* db.py 400-405: the documents found are deleted in one batch; the commit
\* is applied, or rejected, or applied with its reply lost
DeleteLectureBatch(outcome) ==
    /\ files_call.op = "delete_lecture_and_files"
    /\ files_call.pc = "queried"
    /\ files_call.result # <<>>
    /\ files' = IF outcome = "rejected" THEN files
                ELSE {d \in files :
                        \A i \in 1..Len(files_call.result) :
                            files_call.result[i].id # d.id}
    /\ files_call' = [files_call EXCEPT
                        !.pc = IF outcome = "ok" THEN "deleted" ELSE "raised"]
    /\ UNCHANGED <<pure_vars, clock, store_vars, cache_vars, proc_vars,
                   nav_vars, report_vars, dash_vars, tax_vars>>

\* db.py 408-415: the lecture is taken out of the array of the key
\* program_term_subject of taxonomy/lectures; the write is applied, or
\* rejected, or applied with its reply lost
DeleteLectureRemove(outcome) ==
    /\ files_call.op = "delete_lecture_and_files"
    /\ \/ files_call.pc = "deleted"
       \/ files_call.pc = "queried" /\ files_call.result = <<>>
    /\ taxonomy' =
          IF outcome = "rejected" THEN taxonomy
          ELSE [taxonomy EXCEPT
                  !["lectures"] =
                      MergeRemove(@,
                          PyStr(JoinUnderscore(SubSeq(files_call.args, 1, 3))),
                          files_call.args[4])]
    /\ files_call' = [files_call EXCEPT
                        !.pc = IF outcome = "ok" THEN "returned" ELSE "raised"]
    /\ UNCHANGED <<files, tx_pc, tx_args, tx_writes, tx_commits>>
    /\ UNCHANGED <<pure_vars, clock, store_vars, cache_vars, proc_vars,
                   nav_vars, report_vars, dash_vars>>

\* dashboard.py 866-873: the edit by writer w; update_file_metadata sets the
\* new path on the document, then update_taxonomy buffers its writes
EditFile(w, doc_id, display_name, pth) ==
    /\ tx_pc[w] = "idle"
    /\ \E d \in files : d.id = doc_id
    /\ files' = {IF d.id = doc_id
                 THEN [id |-> d.id,
                       data |-> UpdatedData(d.data, display_name, pth)]
                 ELSE d : d \in files}
    /\ tx_pc' = [tx_pc EXCEPT ![w] = "buffered"]
    /\ tx_args' = [tx_args EXCEPT ![w] = pth]
    /\ tx_writes' = [tx_writes EXCEPT
                        ![w] = UpdateTx(pth[1], pth[2], pth[3], pth[4])]
    /\ UNCHANGED <<taxonomy, tx_commits, files_call>>
    /\ UNCHANGED <<pure_vars, clock, store_vars, cache_vars, proc_vars,
                   nav_vars, report_vars, dash_vars>>

\* the steps of save_file, of the edit and of delete_file
WriterStep ==
    \/ \E w \in Writers, id \in Elems(FileIds), pth \in LecturePaths :
          SaveFile(w, id, PyStr(<<65, 98>>), PyStr(<<97, Dot, 112, 100, 102>>),
                   pth, PyStr(<<70>>))
    \/ \E w \in Writers : SaveFileFail(w)
    \/ \E w \in Writers, d \in files, pth \in LecturePaths :
          EditFile(w, d.id, DictGet(d.data, "display_name"), pth)
    \/ \E w \in Writers : Commit(w)
    \/ \E w \in Writers : CommitFail(w)
    \/ \E w \in Writers : CommitLostReply(w)
    \/ \E id \in Elems(FileIds) : DeleteFile(id)

\* the outcomes of a write sent to the store
WriteOutcomes == {"ok", "rejected", "lost"}

\* the steps of a delete_lecture_and_files call that has begun
DeleteStep ==
    \/ \E outcome \in WriteOutcomes : DeleteLectureBatch(outcome)
    \/ \E outcome \in WriteOutcomes : DeleteLectureRemove(outcome)

InitLectures ==
    /\ PureIdle /\ CacheIdle /\ NavIdle /\ ReportIdle /\ SessionIdle /\ FilesIdle
    /\ taxonomy = NoTaxonomy /\ TaxIdle

\* delete_lecture_and_files runs while no other writer is in flight, and no
\* writer begins or goes on while it runs
NextDeleteAlone ==
    \/ ~Deleting /\ WriterStep
    \/ /\ \A w \in Writers : tx_pc[w] # "buffered"
       /\ \E pth \in LecturePaths, outcome \in {"ok", "raised"} :
             DeleteLectureQuery(pth[1], pth[2], pth[3], pth[4], outcome)
    \/ DeleteStep

SpecDeleteAlone == InitLectures /\ [][NextDeleteAlone]_vars

\* the call returns in this step
DeleteReturns ==
    /\ Deleting
    /\ files_call'.pc = "returned"

\* no document of the deleted path is in the store
NoRecordOf(pth) ==
    ~\E d \in files : Matches(d.data, pth[1], pth[2], pth[3], pth[4])

\* C34: when delete_lecture_and_files(p, t, s, l) returns and no writer ran
\* beside it, the File Store holds no record with the path (p, t, s, l) and
\* the options resolved from the stored taxonomy for p/t/s do not hold l.
C34_LectureGone ==
    [][DeleteReturns =>
         (/\ NoRecordOf(files_call.args)
          /\ files_call.args[4]
                 \notin ResolvedFor(taxonomy, files_call.args, 3))']_vars

\* the half of C34 about the File Store
C34_RecordsGone ==
    [][DeleteReturns => NoRecordOf(files_call.args)']_vars

\* the half of C34 about the key of the deleted path itself
C34_KeyCleared ==
    [][DeleteReturns =>
         (files_call.args[4] \notin
              Elems(ArrayAt(taxonomy, "lectures",
                  PyStr(JoinUnderscore(SubSeq(files_call.args, 1, 3))))))'
     ]_vars

\* the writers and delete_lecture_and_files, interleaved in any order
NextLectures ==
    \/ WriterStep
    \/ \E pth \in LecturePaths, outcome \in {"ok", "raised"} :
          DeleteLectureQuery(pth[1], pth[2], pth[3], pth[4], outcome)
    \/ DeleteStep

SpecLectures == InitLectures /\ [][NextLectures]_vars

\* no operation is between two of its awaits
Quiescent ==
    /\ \A w \in Writers : tx_pc[w] # "buffered"
    /\ ~Deleting

\* the taxonomy documents hold the four segments of the path of data
InTaxonomy(tax, data) ==
    LET program == DictGet(data, "program")
        term == DictGet(data, "term")
        subject == DictGet(data, "subject")
        lecture == DictGet(data, "lecture")
    IN  /\ program \in Elems(ArrayAt(tax, "programs", KeyList))
        /\ term \in Elems(ArrayAt(tax, "terms", program))
        /\ subject \in Elems(ArrayAt(tax, "subjects",
                                PyStr(JoinUnderscore(<<program, term>>))))
        /\ lecture \in Elems(ArrayAt(tax, "lectures",
                                PyStr(JoinUnderscore(<<program, term,
                                                       subject>>))))

\* C35: once the operations begun have ended, completed or failed, every
\* file record of the File Store has its program, term, subject and lecture
\* in the taxonomy documents.
C35_FilesInTaxonomy ==
    Quiescent => \A d \in files : InTaxonomy(taxonomy, d.data)

\* the same for operations that all completed: no call raised; it holds
\* when delete_lecture_and_files runs alone and fails when a save_file runs
\* between its query and its taxonomy write
C35_CompletedOnly ==
    (/\ Quiescent
     /\ \A w \in Writers : tx_pc[w] # "raised"
     /\ files_call.op = "delete_lecture_and_files" => files_call.pc # "raised")
        => \A d \in files : InTaxonomy(taxonomy, d.data)

(***************************************************************************)
(* The login of the dashboard: check_rate_limit and login_form             *)
(* (dashboard.py 161-191), run by main while the session is not            *)
(* authenticated (dashboard.py 909-911).  The clock is datetime.now(), in  *)
(* minutes.                                                                *)
(***************************************************************************)

\* dashboard.py 167: the attempts after which the form is withheld
LoginLimit == 3

\* dashboard.py 169: timedelta(minutes=15)
Lockout == 15

\* the minutes that pass in one step of the clock between runs
LoginTick == 5

\* the clock of the session stops at MaxLoginClock
MaxLoginClock == 35

\* dashboard.py 45: ADMIN_PASSWORD, "admin" unless the environment sets it
ADMIN_PASSWORD == PyStr(<<97, 100, 109, 105, 110>>)

\* the texts typed into the password field: "admin", "a", the empty text
\* and "é"
Passwords ==
    { ADMIN_PASSWORD, PyStr(<<97>>), PyStr(<<>>), PyStr(<<233>>) }

\* the last code point of ASCII
MaxAscii == 127

\* dashboard.py 161-163: hmac.compare_digest(password, ADMIN_PASSWORD), which
\* raises TypeError for a str that holds a non-ASCII character
verify_password(password) ==
    IF \E c \in Elems(password.val) \cup Elems(ADMIN_PASSWORD.val) :
          c > MaxAscii
    THEN Raised("TypeError")
    ELSE Returned(password = ADMIN_PASSWORD)

\* dashboard.py 165-172: check_rate_limit at time now; what it returns and
\* the session state it leaves
check_rate_limit(s, now) ==
    IF s.login_attempts >= LoginLimit
    THEN IF now - s.last_attempt < Lockout
         THEN [ret |-> FALSE, session |-> s]
         ELSE [ret |-> TRUE, session |-> [s EXCEPT !.login_attempts = 0]]
    ELSE [ret |-> TRUE, session |-> s]

\* the smaller of two numbers
Min2(a, b) == IF a < b THEN a ELSE b

\* the failed attempts of the session after one more: every failed attempt
\* is counted in failed, those answered with "Invalid password" in invalid
OneMoreFailure(h, now, counted) ==
    [failed |-> Min2(h.failed + 1, LoginLimit),
     invalid |-> IF counted THEN Min2(h.invalid + 1, LoginLimit)
                 ELSE h.invalid,
     last_failed |-> now]

\* the failed attempts at the start of a run: none when the last one of
\* LoginLimit is Lockout minutes old
FailuresAt(h, now) ==
    IF now - h.last_failed >= Lockout
    THEN [failed |-> IF h.failed >= LoginLimit THEN 0 ELSE h.failed,
          invalid |-> IF h.invalid >= LoginLimit THEN 0 ELSE h.invalid,
          last_failed |-> h.last_failed]
    ELSE [failed |-> h.failed, invalid |-> h.invalid,
          last_failed |-> h.last_failed]

\* the record of a run of login_form
RunRecord(outcome, password, h) ==
    [outcome |-> outcome, password |-> password, failed |-> h.failed,
     invalid |-> h.invalid, last_failed |-> h.last_failed]

\* dashboard.py 174-191, 909-911: one run of the script for a session that
\* is not authenticated; clicked tells whether the Login button was pressed
\* with password in the field
login_form(clicked, password) ==
    LET now == clock
        limit == check_rate_limit(session, now)
        h == FailuresAt(login_run, now)
        verified == verify_password(password)
    IN  /\ ~session.authenticated
        /\ IF ~limit.ret
           THEN /\ session' = limit.session
                /\ login_run' = RunRecord("limited", <<>>, h)
           ELSE IF ~clicked
           THEN /\ session' = limit.session
                /\ login_run' = RunRecord("form", <<>>, h)
           ELSE IF verified.exc # "none"
           THEN /\ session' = [limit.session EXCEPT !.last_attempt = now]
                /\ login_run' = RunRecord("raised", password,
                                          OneMoreFailure(h, now, FALSE))
           ELSE IF verified.val
           THEN /\ session' = [authenticated |-> TRUE, login_attempts |-> 0,
                               last_attempt |-> now]
                /\ login_run' = RunRecord("authenticated", password,
                                    [failed |-> 0, invalid |-> 0,
                                     last_failed |-> h.last_failed])
           ELSE /\ session' = [limit.session EXCEPT
                                  !.last_attempt = now,
                                  !.login_attempts = @ + 1]
                /\ login_run' = RunRecord("invalid", password,
                                          OneMoreFailure(h, now, TRUE))
        /\ UNCHANGED <<pure_vars, clock, store_vars, cache_vars, proc_vars,
                       nav_vars, report_vars, tax_vars, file_vars>>

\* time passes between the runs
LoginClock ==
    /\ clock + LoginTick <= MaxLoginClock
    /\ clock' = clock + LoginTick
    /\ UNCHANGED <<pure_vars, store_vars, cache_vars, proc_vars, ext_vars>>

InitLogin == PureIdle /\ CacheIdle /\ ExtIdle

\* the runs of one session, with and without a press of Login, while time
\* passes
NextLogin ==
    \/ \E clicked \in BOOLEAN, password \in Passwords :
          login_form(clicked, password)
    \/ LoginClock

SpecLogin == InitLogin /\ [][NextLogin]_vars

\* a run of login_form
LoginRun == \E clicked \in BOOLEAN, password \in Passwords :
                login_form(clicked, password)

\* a password is checked in the run that ends
Checked == login_run'.outcome \in {"authenticated", "invalid", "raised"}

\* the session is locked at the start of a run: LoginLimit attempts failed
\* and the last of them is less than Lockout minutes old
LockedOut ==
    /\ login_run.failed >= LoginLimit
    /\ clock - login_run.last_failed < Lockout

\* the failures counted by login_attempts lock the session
LockedOutCounted ==
    /\ login_run.invalid >= LoginLimit
    /\ clock - login_run.last_failed < Lockout

\* a successful login resets the count, and the session is authenticated
\* only by a check of the right password
SuccessResets ==
    /\ login_run'.outcome = "authenticated" => session'.login_attempts = 0
    /\ session'.authenticated =>
          /\ login_run'.outcome = "authenticated"
          /\ login_run'.password = ADMIN_PASSWORD
          /\ verify_password(login_run'.password) = Returned(TRUE)

\* after the lockout the count restarts from 0: it is 0, or 1 when the run
\* itself is a failed attempt
Restarts ==
    (/\ session.login_attempts >= LoginLimit
     /\ clock - session.last_attempt >= Lockout)
        => session'.login_attempts =
               IF login_run'.outcome = "invalid" THEN 1 ELSE 0

\* C36: in a session, after 3 failed login attempts no password is checked
\* until 15 minutes have passed since the last attempt; after that the count
\* restarts from 0, a successful login resets it to 0, and authenticated
\* becomes true only through a password check that succeeds.
C36_LockoutAfterFailures ==
    [][LoginRun =>
          /\ LockedOut => ~Checked
          /\ Restarts
          /\ SuccessResets]_vars

\* the same for the failed attempts that were answered with "Invalid
\* password", which are the ones login_attempts counts
C36_LockoutAfterInvalid ==
    [][LoginRun =>
          /\ LockedOutCounted => ~Checked
          /\ Restarts
          /\ SuccessResets]_vars

\* authenticated is set in no other step
C36_OnlyLoginAuthenticates ==
    [][session'.authenticated # session.authenticated => LoginRun]_vars

====
